---- MODULE Spec2Model ----
(***************************************************************************)
(* ssh-hub: the request dispatcher (src/src/server.rs), the connection     *)
(* pool (src/src/connection/pool.rs), the session liveness flags           *)
(* (src/src/connection/session.rs) and the registry hot-reload, as a state *)
(* machine of concurrent tool calls.  Every await point of the Rust code   *)
(* is a step boundary: one action is what one task does between two        *)
(* awaits while it holds the lock the code holds there.                    *)
(* Session::connect (host-key check, src/src/connection/session.rs, and    *)
(* authentication, src/src/connection/auth.rs), run_channel's channel open *)
(* with the clock of its timeout, run_channel's read loop, the connection  *)
(* string parser (src/src/cli/connection.rs) and the shell escaping        *)
(* (src/src/utils/path.rs) are followed on their own.                      *)
(***************************************************************************)
EXTENDS Naturals, Integers, Sequences, FiniteSets, TLC

\* ------------------------------------------------------------------ bounds
NumTasks == 2        \* tool calls that can be in flight at once
MaxCalls == 3        \* tool calls started in one run
MaxSessions == 3     \* successful Session::connect in one run
MaxWrites == 1       \* writes of the registry file in one run of Spec
MaxReloadWrites == 2 \* writes of the registry file in one run of SpecReload
MaxSoloWrites == 1   \* writes of the registry file in one run of SpecSolo

MaxAgentKeys == 11   \* keys the SSH agent holds at most
MaxConnects == 3     \* Session::connect calls in one run of SpecHostKey

MaxConnLen == 6      \* characters of a connection string
MaxPathLen == 4      \* characters of a string given to shell_escape
MaxFrames == 4       \* channel messages of one command

TickSecs == 5        \* seconds of one tick of the clock
MaxOpens == 4        \* run_channel calls in one run of SpecOpen
MaxLiveCalls == 2    \* tool calls started in one run of SpecLive

Tasks == 1..NumTasks
SoloTasks == {1}
Names == {"prod", "staging"}
NoConn == 0          \* Option::None for a session handle / lock handle
NoTask == 0

\* ------------------------------------------------------- registry entries
\* A path is its sequence of segments ("~/.ssh/id_a" is <<"~", ".ssh", "id_a">>);
\* Option<String> identity: <<>> is None.
HomeDir == "/home/u"
NoIdentity == << >>
IdA == << "~", ".ssh", "id_a" >>

ConnFields == {"host", "user", "port", "remote_path", "identity", "auth"}
AllFields == ConnFields \cup {"metadata"}

BaseEntry(name) ==
    [host |-> name, user |-> "deploy", port |-> 22, remote_path |-> "~",
     identity |-> NoIdentity, auth |-> "auto", metadata |-> "none"]

\* The entry with one field given another value.
AltValue(f) ==
    CASE f = "host" -> "other.example.com"
      [] f = "user" -> "root"
      [] f = "port" -> 2222
      [] f = "remote_path" -> "/var/www/app"
      [] f = "identity" -> IdA
      [] f = "auth" -> "key"
      [] f = "metadata" -> "linux"

Variant(name, f) == [BaseEntry(name) EXCEPT ![f] = AltValue(f)]

\* ServerRegistry: the HashMap alias -> ServerEntry, a function whose domain
\* is the set of configured aliases.
RegBase == [a \in Names |-> BaseEntry(a)]
RegPort == [RegBase EXCEPT !["staging"] = Variant("staging", "port")]
RegProdPort == [RegBase EXCEPT !["prod"] = Variant("prod", "port")]
RegNoProd == [a \in {"staging"} |-> BaseEntry(a)]
RegEmpty == [a \in {} |-> BaseEntry(a)]

\* What the registry file is rewritten to while calls on prod are in flight:
\* prod's port changed, prod removed.
ProdRegs == {RegProdPort, RegNoProd}

\* What the registry file is rewritten to under concurrent reloads.
ReloadRegs == {RegBase, RegPort}

\* Every registry over the two aliases in which staging is absent, the base
\* entry or the base entry with one field changed, and prod is absent, the
\* base entry or the base entry with other metadata.
StagingEntries == {BaseEntry("staging")} \cup {Variant("staging", f) : f \in AllFields}
ProdEntries == {BaseEntry("prod"), Variant("prod", "metadata")}
AllRegs ==
    {[a \in {"prod", "staging"} |-> IF a = "prod" THEN p ELSE s] :
        p \in ProdEntries, s \in StagingEntries}
    \cup {[a \in {"prod"} |-> p] : p \in ProdEntries}
    \cup {[a \in {"staging"} |-> s] : s \in StagingEntries}
    \cup {RegEmpty}

\* The registries the server is started on when its reload is followed.
StartRegs ==
    {RegBase, RegNoProd,
     [a \in Names |-> IF a = "prod" THEN Variant("prod", "metadata")
                                    ELSE Variant("staging", "identity")]}

\* shellexpand_tilde: a leading "~/" becomes the home directory and "/".
shellexpand_tilde(path) ==
    IF Len(path) >= 2 /\ path[1] = "~"
    THEN << HomeDir >> \o SubSeq(path, 2, Len(path))
    ELSE path

\* params_from_config: the entry's connection fields, identity tilde-expanded,
\* and the alias as server_name.  metadata is not copied.
params_from_config(name, entry) ==
    [host |-> entry.host, user |-> entry.user, port |-> entry.port,
     remote_path |-> entry.remote_path,
     identity |-> IF entry.identity = NoIdentity THEN NoIdentity
                  ELSE shellexpand_tilde(entry.identity),
     auth_method |-> entry.auth, server_name |-> name]

NoParams == params_from_config("none", BaseEntry("none"))

\* ServerRegistry::changed_servers(&self, new): the aliases of self whose
\* connection-relevant fields differ in new, plus those removed in new.
connection_differs(old_entry, new_entry) ==
    \/ old_entry.host /= new_entry.host
    \/ old_entry.user /= new_entry.user
    \/ old_entry.port /= new_entry.port
    \/ old_entry.remote_path /= new_entry.remote_path
    \/ old_entry.identity /= new_entry.identity
    \/ old_entry.auth /= new_entry.auth

changed_servers(old, new) ==
    {name \in DOMAIN old :
        IF name \in DOMAIN new THEN connection_differs(old[name], new[name])
        ELSE TRUE}

\* ------------------------------------------------------------------ state
VARIABLES
    pool,             \* ConnectionPool.connections: alias -> handle or NoConn
    connect_locks,    \* ConnectionPool.connect_locks: alias -> mutex or NoConn
    mutexes,          \* the connect mutexes created so far: holder or NoTask
    sessions,         \* the SshConnections created so far, by handle
    config,           \* RemoteSessionServer.config (in-memory registry)
    config_mtime,     \* RemoteSessionServer.config_mtime (bookmark)
    file,             \* the registry file: [ok, reg, mtime]
    pc,               \* each task's position
    tool,             \* each task's tool: "with_connection" | "list_servers"
    server,           \* with_connection's server argument
    conn,             \* the handle the task resolved (conn / conn_ref)
    observed,         \* pool.get's local conn
    params,           \* resolve_connection's params
    lock,             \* resolve_connection's lock
    current_mtime,    \* maybe_reload_config's current_mtime
    new_config,       \* maybe_reload_config's new_config
    servers_to_evict, \* maybe_reload_config's servers_to_evict (not yet removed)
    futs,             \* maybe_reload_config's futs: handles to disconnect
    result,           \* the reply the call returns
    calls,            \* tool calls started so far
    connects,         \* history: Session::connect invocations per alias
    connect_failures, \* history: failed Session::connect invocations
    cleaned,          \* history: the call's post-call check saw is_closed
    closed_at_start,  \* history: the server's handles closed when the call started
    configured,       \* history: the aliases the in-memory registry has held
    snap              \* history: the pool and the registry when a call started
                      \* with no other call in flight, until its reload is over

\* Session::connect (src/src/connection/session.rs, auth.rs), one connect at
\* a time, on its own: the host-key check of the handshake and the
\* authentication.  Its inputs are the known-hosts file, the key the server
\* presents, the key files, the agent and the server's RSA preference.
VARIABLES
    known_hosts,      \* the known-hosts file: [readable, writable, rec]
    server_key,       \* the host key the server presents in this connect
    cparams,          \* ConnectionParams: [auth_method, identity]
    keyfiles,         \* the key files: path -> "absent" | "malformed" | algorithm
    agent,            \* the SSH agent: "unreachable" | "no_list" | its keys' algorithms
    server_rsa,       \* what best_supported_rsa_hash returns in this session
    cpc,              \* the connect's position
    rung,             \* the key file try_key_auth was called with, or "agent"
    agent_i,          \* try_agent_auth's loop index
    cached_rsa_hash,  \* try_agent_auth's / try_key_auth's cached_rsa_hash
    methods_tried,    \* authenticate_auto's methods_tried
    cresult,          \* what Session::connect returned
    n_connects,       \* connects started so far
    attempts,         \* history: the public-key attempts sent in this connect
    rsa_queries,      \* history: best_supported_rsa_hash calls of this connect
    loads,            \* history: the key files load_secret_key was called on
    agent_contacts,   \* history: AgentClient::connect_env calls of this connect
    accepted_keys,    \* history: the host keys accepted, in connect order
    accepts,          \* history: the attempts of this connect the server accepted
    sighted           \* history: the key last accepted on a first sighting

connvars == << known_hosts, server_key, cparams, keyfiles, agent, server_rsa,
               cpc, rung, agent_i, cached_rsa_hash, methods_tried, cresult,
               n_connects, attempts, rsa_queries, loads, agent_contacts,
               accepted_keys, accepts, sighted >>

\* The path and shell utilities (src/src/utils/path.rs) and the connection
\* string parser (src/src/cli/connection.rs), applied to one input.
VARIABLES
    u_in,             \* the input string, a sequence of characters
    u_port,           \* parse_connection_string's port_override
    u_op,             \* the function applied, "none" before
    u_out             \* its result

utilvars == << u_in, u_port, u_op, u_out >>

\* run_channel's channel open on one session (src/src/connection/session.rs),
\* with the clock of its timeout.
VARIABLES
    o_pc,             \* each task's position in the channel open
    o_timer,          \* ticks since the task's timeout future was started
    o_open,           \* ticks since the task's channel_open_session was sent
    o_mutex,          \* the session mutex: its holder or NoTask
    o_force_closed,   \* the session's force_closed flag
    o_result,         \* what the task's channel open returned
    o_calls           \* run_channel calls so far

openvars == << o_pc, o_timer, o_open, o_mutex, o_force_closed, o_result, o_calls >>

\* The state a tool call's dispatch leaves alone.
othervars == << connvars, utilvars, openvars >>

taskvars == << pc, tool, server, conn, observed, params, lock, current_mtime,
               new_config, servers_to_evict, futs, result >>
histvars == << connects, connect_failures, cleaned, closed_at_start, configured, snap >>
servervars == << pool, connect_locks, mutexes, sessions, config, config_mtime, file,
                 taskvars, calls, histvars >>
vars == << servervars, othervars >>

\* ------------------------------------------------------------- sessions
\* is_closed as it would be if it looked at the force_closed flag only.
IsClosedFlagOnly(h) == sessions[h].force_closed

\* SshConnection::is_closed: force_closed, or russh reports the session closed.
IsClosed(h) == sessions[h].force_closed \/ ~sessions[h].alive

Handles == 1..Len(sessions)

\* IsClosedReady as it would be if is_closed locked the session before it
\* looked at force_closed.
IsClosedLocksFirst(h) == sessions[h].mutex = NoTask

\* is_closed can answer: force_closed is read without a lock; otherwise
\* self.session.lock().await waits until the session mutex is free.
IsClosedReady(h) == sessions[h].force_closed \/ sessions[h].mutex = NoTask

\* The session is closed: marked closed, or its transport is gone.
Dead(h) == sessions[h].force_closed \/ ~sessions[h].alive

\* SshConnection::disconnect on each of a set of handles.
Disconnected(hs) ==
    [h \in Handles |-> IF h \in hs THEN [sessions[h] EXCEPT !.alive = FALSE]
                       ELSE sessions[h]]

\* No call is being followed.
NoSnap == [task |-> NoTask, pool |-> [n \in Names |-> NoConn], config |-> RegEmpty]

\* ------------------------------------------------- Session::connect state
NoKey == "no_key"
HostKeys == {"K1", "K2"}

\* authenticate_auto's default key names, in its order.
DefaultKeys == << "id_ed25519", "id_rsa", "id_ecdsa" >>

\* The key files the authentication can look at: the configured identity and
\* the default keys under ~/.ssh.
KeyPaths == {"identity"} \cup {DefaultKeys[k] : k \in 1..Len(DefaultKeys)}

\* A connect's locals and its histories before it starts.
ConnectLocals ==
    /\ cpc = "idle"
    /\ rung = "none"
    /\ agent_i = 0
    /\ cached_rsa_hash = "unset"
    /\ methods_tried = << >>
    /\ cresult = << >>
    /\ attempts = << >>
    /\ rsa_queries = 0
    /\ loads = << >>
    /\ agent_contacts = 0
    /\ accepts = 0

\* ---------------------------------------------------------- utility state
NoPort == 0           \* Option::None for port_override
NoOutput == [ok |-> FALSE, err |-> "none"]

\* --------------------------------------------------------------- Init
\* main loaded the registry file and RemoteSessionServer::new recorded its
\* mtime; the pool and the lock table are empty.
ServerInit(reg) ==
    /\ pool = [n \in Names |-> NoConn]
    /\ connect_locks = [n \in Names |-> NoConn]
    /\ mutexes = << >>
    /\ sessions = << >>
    /\ config = reg
    /\ config_mtime = 0
    /\ file = [ok |-> TRUE, reg |-> reg, mtime |-> 0]
    /\ pc = [t \in Tasks |-> "idle"]
    /\ tool = [t \in Tasks |-> "none"]
    /\ server = [t \in Tasks |-> "none"]
    /\ conn = [t \in Tasks |-> NoConn]
    /\ observed = [t \in Tasks |-> NoConn]
    /\ params = [t \in Tasks |-> NoParams]
    /\ lock = [t \in Tasks |-> NoConn]
    /\ current_mtime = [t \in Tasks |-> 0]
    /\ new_config = [t \in Tasks |-> RegEmpty]
    /\ servers_to_evict = [t \in Tasks |-> {}]
    /\ futs = [t \in Tasks |-> {}]
    /\ result = [t \in Tasks |-> "none"]
    /\ calls = 0
    /\ connects = [n \in Names |-> 0]
    /\ connect_failures = 0
    /\ cleaned = [t \in Tasks |-> FALSE]
    /\ closed_at_start = [t \in Tasks |-> {}]
    /\ configured = DOMAIN reg
    /\ snap = NoSnap

\* No connect has been started: the known-hosts file is empty, no key file
\* exists and no agent runs.
ConnIdle ==
    /\ known_hosts = [readable |-> TRUE, writable |-> TRUE, rec |-> NoKey]
    /\ server_key = NoKey
    /\ cparams = [auth_method |-> "auto", identity |-> NoIdentity]
    /\ keyfiles = [p \in KeyPaths |-> "absent"]
    /\ agent = [state |-> "unreachable", keys |-> << >>]
    /\ server_rsa = "unadvertised"
    /\ ConnectLocals
    /\ n_connects = 0
    /\ accepted_keys = << >>
    /\ sighted = known_hosts.rec

\* No utility function has been applied.
UtilIdle ==
    /\ u_in = << >>
    /\ u_port = NoPort
    /\ u_op = "none"
    /\ u_out = NoOutput

\* No channel open has been started on the session.
OpenIdle ==
    /\ o_pc = [t \in Tasks |-> "idle"]
    /\ o_timer = [t \in Tasks |-> 0]
    /\ o_open = [t \in Tasks |-> 0]
    /\ o_mutex = NoTask
    /\ o_force_closed = FALSE
    /\ o_result = [t \in Tasks |-> "none"]
    /\ o_calls = 0

\* The server with nothing else going on.
InitWith(reg) == ServerInit(reg) /\ ConnIdle /\ UtilIdle /\ OpenIdle

\* The server started on the registry of the two base entries.
Init == InitWith(RegBase)

\* The server started on one of several registries.
InitAny == \E reg \in StartRegs : InitWith(reg)

\* ------------------------------------------------------ a tool call starts
\* list_servers / remote_bash / remote_read / ...: the tool's entry.
StartCall(t, tl, name) ==
    /\ pc[t] = "idle"
    /\ calls < MaxCalls
    /\ calls' = calls + 1
    /\ tool' = [tool EXCEPT ![t] = tl]
    /\ server' = [server EXCEPT ![t] = name]
    /\ pc' = [pc EXCEPT ![t] = "rl_stat"]
    /\ closed_at_start' = [closed_at_start EXCEPT ![t] =
            {h \in Handles : sessions[h].alias = name /\ Dead(h)}]
    /\ snap' = IF \A u \in Tasks \ {t} : pc[u] = "idle"
               THEN [task |-> t, pool |-> pool, config |-> config]
               ELSE NoSnap
    /\ UNCHANGED << pool, connect_locks, mutexes, sessions, config, config_mtime, file, othervars,
                    conn, observed, params, lock, current_mtime, new_config,
                    servers_to_evict, futs, result, connects, connect_failures, cleaned,
                    configured >>

\* --------------------------------------------------- maybe_reload_config
\* Where the call goes when maybe_reload_config returns.
AfterReload(t) == IF tool[t] = "list_servers" THEN "list" ELSE "get1_read"

\* std::fs::metadata(&path).modified()
RlStat(t) ==
    /\ pc[t] = "rl_stat"
    /\ current_mtime' = [current_mtime EXCEPT ![t] = file.mtime]
    /\ pc' = [pc EXCEPT ![t] = "rl_check"]
    /\ UNCHANGED << pool, connect_locks, mutexes, sessions, config, config_mtime, file, othervars,
                    tool, server, conn, observed, params, lock, new_config,
                    servers_to_evict, futs, result, calls, histvars >>

\* Fast path: the stored mtime, under the read lock, equals current_mtime.
RlCheck(t) ==
    /\ pc[t] = "rl_check"
    /\ pc' = [pc EXCEPT ![t] = IF config_mtime = current_mtime[t]
                               THEN AfterReload(t) ELSE "rl_load"]
    /\ UNCHANGED << pool, connect_locks, mutexes, sessions, config, config_mtime, file, othervars,
                    tool, server, conn, observed, params, lock, current_mtime, new_config,
                    servers_to_evict, futs, result, calls, histvars >>

\* RlLoad as it would be if a parse error fell back to the empty registry,
\* the way main does at startup (unwrap_or_default).
RlLoadDefault(t) ==
    /\ pc[t] = "rl_load"
    /\ new_config' = [new_config EXCEPT ![t] = IF file.ok THEN file.reg ELSE RegEmpty]
    /\ pc' = [pc EXCEPT ![t] = "rl_diff"]
    /\ UNCHANGED << pool, connect_locks, mutexes, sessions, config, config_mtime, file, othervars,
                    tool, server, conn, observed, params, lock, current_mtime,
                    servers_to_evict, futs, result, calls, histvars >>

\* ServerRegistry::load(): on a parse error, warn and return.
RlLoad(t) ==
    /\ pc[t] = "rl_load"
    /\ IF file.ok
       THEN /\ new_config' = [new_config EXCEPT ![t] = file.reg]
            /\ pc' = [pc EXCEPT ![t] = "rl_diff"]
       ELSE /\ pc' = [pc EXCEPT ![t] = AfterReload(t)]
            /\ UNCHANGED new_config
    /\ UNCHANGED << pool, connect_locks, mutexes, sessions, config, config_mtime, file, othervars,
                    tool, server, conn, observed, params, lock, current_mtime,
                    servers_to_evict, futs, result, calls, histvars >>

\* RlDiff with the receiver and the argument exchanged:
\* new_config.changed_servers(&old_cfg).
RlDiffSwapped(t) ==
    /\ pc[t] = "rl_diff"
    /\ servers_to_evict' = [servers_to_evict EXCEPT ![t] =
                                changed_servers(new_config[t], config)]
    /\ pc' = [pc EXCEPT ![t] = "rl_swap"]
    /\ UNCHANGED << pool, connect_locks, mutexes, sessions, config, config_mtime, file, othervars,
                    tool, server, conn, observed, params, lock, current_mtime, new_config,
                    futs, result, calls, histvars >>

\* old_cfg.changed_servers(&new_config) under the registry's read lock.
RlDiff(t) ==
    /\ pc[t] = "rl_diff"
    /\ servers_to_evict' = [servers_to_evict EXCEPT ![t] =
                                changed_servers(config, new_config[t])]
    /\ pc' = [pc EXCEPT ![t] = "rl_swap"]
    /\ UNCHANGED << pool, connect_locks, mutexes, sessions, config, config_mtime, file, othervars,
                    tool, server, conn, observed, params, lock, current_mtime, new_config,
                    futs, result, calls, histvars >>

\* *cfg = new_config under the registry's write lock.
RlSwap(t) ==
    /\ pc[t] = "rl_swap"
    /\ config' = new_config[t]
    /\ configured' = configured \cup DOMAIN new_config[t]
    /\ pc' = [pc EXCEPT ![t] = "rl_mtime"]
    /\ UNCHANGED << pool, connect_locks, mutexes, sessions, config_mtime, file, othervars,
                    tool, server, conn, observed, params, lock, current_mtime, new_config,
                    servers_to_evict, futs, result, calls, connects, connect_failures,
                    cleaned, closed_at_start, snap >>

\* *stored = Some(current_mtime) under the bookmark's write lock.
RlMtime(t) ==
    /\ pc[t] = "rl_mtime"
    /\ config_mtime' = current_mtime[t]
    /\ pc' = [pc EXCEPT ![t] = IF servers_to_evict[t] = {} THEN AfterReload(t)
                               ELSE "rl_evict"]
    /\ UNCHANGED << pool, connect_locks, mutexes, sessions, config, file, othervars,
                    tool, server, conn, observed, params, lock, current_mtime, new_config,
                    servers_to_evict, futs, result, calls, histvars >>

\* RlEvict as it would be if a reload dropped every pooled connection.
RlEvictAll(t) ==
    /\ pc[t] = "rl_evict"
    /\ pool' = [n \in Names |-> NoConn]
    /\ futs' = [futs EXCEPT ![t] = {pool[n] : n \in Names} \ {NoConn}]
    /\ servers_to_evict' = [servers_to_evict EXCEPT ![t] = {}]
    /\ pc' = [pc EXCEPT ![t] = "rl_join"]
    /\ UNCHANGED << connect_locks, mutexes, sessions, config, config_mtime, file, othervars,
                    tool, server, conn, observed, params, lock, current_mtime, new_config,
                    result, calls, histvars >>

\* One turn of the eviction loop: pool.remove(name), the removed handle kept
\* for disconnect.
RlEvict(t) ==
    /\ pc[t] = "rl_evict"
    /\ \E name \in servers_to_evict[t] :
        /\ pool' = [pool EXCEPT ![name] = NoConn]
        /\ futs' = [futs EXCEPT ![t] =
                        IF pool[name] /= NoConn THEN @ \cup {pool[name]} ELSE @]
        /\ servers_to_evict' = [servers_to_evict EXCEPT ![t] = @ \ {name}]
        /\ pc' = [pc EXCEPT ![t] = IF servers_to_evict[t] = {name} THEN "rl_join"
                                   ELSE "rl_evict"]
    /\ UNCHANGED << connect_locks, mutexes, sessions, config, config_mtime, file, othervars,
                    tool, server, conn, observed, params, lock, current_mtime, new_config,
                    result, calls, histvars >>

\* join_all(futs): every evicted connection is disconnected.
RlJoin(t) ==
    /\ pc[t] = "rl_join"
    /\ sessions' = Disconnected(futs[t])
    /\ futs' = [futs EXCEPT ![t] = {}]
    /\ pc' = [pc EXCEPT ![t] = AfterReload(t)]
    /\ UNCHANGED << pool, connect_locks, mutexes, config, config_mtime, file, othervars,
                    tool, server, conn, observed, params, lock, current_mtime, new_config,
                    servers_to_evict, result, calls, histvars >>

\* ------------------------------------------------------------ pool.get
\* guard.get(name).cloned() under the read lock; None returns at once.
GetRead(t, at, closedPc, missPc) ==
    /\ pc[t] = at
    /\ observed' = [observed EXCEPT ![t] = pool[server[t]]]
    /\ pc' = [pc EXCEPT ![t] = IF pool[server[t]] = NoConn THEN missPc ELSE closedPc]
    /\ snap' = IF snap.task = t THEN NoSnap ELSE snap
    /\ UNCHANGED << pool, connect_locks, mutexes, sessions, config, config_mtime, file, othervars,
                    tool, server, conn, params, lock, current_mtime, new_config,
                    servers_to_evict, futs, result, calls, connects, connect_failures,
                    cleaned, closed_at_start, configured >>

\* The pool after get's eviction: the entry goes only if it is still the
\* observed connection object (Arc::ptr_eq).
EvictIfSame(p, name, c) == IF p[name] = c THEN [p EXCEPT ![name] = NoConn] ELSE p

\* The connect mutex is released (the guard is dropped) when held by t.
Released(t) ==
    [i \in 1..Len(mutexes) |-> IF i = lock[t] /\ mutexes[i] = t THEN NoTask ELSE mutexes[i]]

\* c.is_closed().await on the observed handle: a hit returns Some(c); the
\* second get runs under the connect lock, which a hit releases on return.
GetClosed(t, at, evictPc, hitPc) ==
    /\ pc[t] = at
    /\ IsClosedReady(observed[t])
    /\ IF IsClosed(observed[t])
       THEN /\ pc' = [pc EXCEPT ![t] = evictPc]
            /\ UNCHANGED << conn, observed, mutexes, lock >>
       ELSE /\ pc' = [pc EXCEPT ![t] = hitPc]
            /\ conn' = [conn EXCEPT ![t] = observed[t]]
            /\ observed' = [observed EXCEPT ![t] = NoConn]
            /\ mutexes' = Released(t)
            /\ lock' = [lock EXCEPT ![t] = NoConn]
    /\ UNCHANGED << pool, connect_locks, sessions, config, config_mtime, file, othervars,
                    tool, server, params, current_mtime, new_config,
                    servers_to_evict, futs, result, calls, histvars >>

\* GetEvict as it would be with guard.remove(name) and no Arc::ptr_eq test.
GetEvictAlways(t, at, missPc) ==
    /\ pc[t] = at
    /\ pool' = [pool EXCEPT ![server[t]] = NoConn]
    /\ observed' = [observed EXCEPT ![t] = NoConn]
    /\ pc' = [pc EXCEPT ![t] = missPc]
    /\ UNCHANGED << connect_locks, mutexes, sessions, config, config_mtime, file, othervars,
                    tool, server, conn, params, lock, current_mtime, new_config,
                    servers_to_evict, futs, result, calls, histvars >>

\* The closed handle is evicted under the write lock and get returns None.
GetEvict(t, at, missPc) ==
    /\ pc[t] = at
    /\ pool' = EvictIfSame(pool, server[t], observed[t])
    /\ observed' = [observed EXCEPT ![t] = NoConn]
    /\ pc' = [pc EXCEPT ![t] = missPc]
    /\ UNCHANGED << connect_locks, mutexes, sessions, config, config_mtime, file, othervars,
                    tool, server, conn, params, lock, current_mtime, new_config,
                    servers_to_evict, futs, result, calls, histvars >>

\* -------------------------------------------------- resolve_connection
\* Fast path: self.pool.get(server), no connect lock.
Get1Read(t) == GetRead(t, "get1_read", "get1_closed", "cfg_lookup")
Get1Closed(t) == GetClosed(t, "get1_closed", "get1_evict", "handler")
Get1Evict(t) == GetEvict(t, "get1_evict", "cfg_lookup")

\* cfg.servers.keys(): the configured aliases in the HashMap's iteration
\* order, which is any order.
KeyOrders(cfg) ==
    {order \in [1..Cardinality(DOMAIN cfg) -> DOMAIN cfg] :
        \A i, j \in DOMAIN order : i /= j => order[i] /= order[j]}

\* names.join(", ")
RECURSIVE Join(_)
Join(names) ==
    IF Len(names) = 0 THEN ""
    ELSE IF Len(names) = 1 THEN names[1]
    ELSE names[1] \o ", " \o Join(Tail(names))

\* The error resolve_connection formats for a server that is not configured.
NotFoundErrors(name, cfg) ==
    IF DOMAIN cfg = {}
    THEN {"Error: server '" \o name \o "' not found. No servers are configured. "
            \o "Add servers via 'ssh-hub add <name> <connection>'."}
    ELSE {"Error: server '" \o name \o "' not found. Configured servers: "
            \o Join(order) \o "." : order \in KeyOrders(cfg)}

\* CfgLookup as it would be if an alias missing from the registry went on to
\* the connect lock and the connect.
CfgLookupConnects(t) ==
    /\ pc[t] = "cfg_lookup"
    /\ params' = [params EXCEPT ![t] =
                    IF server[t] \in DOMAIN config
                    THEN params_from_config(server[t], config[server[t]])
                    ELSE NoParams]
    /\ pc' = [pc EXCEPT ![t] = "lock_fast"]
    /\ UNCHANGED << pool, connect_locks, mutexes, sessions, config, config_mtime, file, othervars,
                    tool, server, conn, observed, lock, current_mtime, new_config,
                    servers_to_evict, futs, result, calls, histvars >>

\* cfg.get(server) under the registry's read lock: params, or the error.
CfgLookup(t) ==
    /\ pc[t] = "cfg_lookup"
    /\ IF server[t] \in DOMAIN config
       THEN /\ params' = [params EXCEPT ![t] =
                            params_from_config(server[t], config[server[t]])]
            /\ pc' = [pc EXCEPT ![t] = "lock_fast"]
            /\ UNCHANGED result
       ELSE /\ \E msg \in NotFoundErrors(server[t], config) :
                    result' = [result EXCEPT ![t] = msg]
            /\ pc' = [pc EXCEPT ![t] = "done"]
            /\ UNCHANGED params
    /\ UNCHANGED << pool, connect_locks, mutexes, sessions, config, config_mtime, file, othervars,
                    tool, server, conn, observed, lock, current_mtime, new_config,
                    servers_to_evict, futs, calls, histvars >>

\* connect_lock, fast path: the lock exists (read lock on connect_locks).
LockFast(t) ==
    /\ pc[t] = "lock_fast"
    /\ IF connect_locks[server[t]] /= NoConn
       THEN /\ lock' = [lock EXCEPT ![t] = connect_locks[server[t]]]
            /\ pc' = [pc EXCEPT ![t] = "lock_wait"]
       ELSE /\ pc' = [pc EXCEPT ![t] = "lock_slow"]
            /\ UNCHANGED lock
    /\ UNCHANGED << pool, connect_locks, mutexes, sessions, config, config_mtime, file, othervars,
                    tool, server, conn, observed, params, current_mtime, new_config,
                    servers_to_evict, futs, result, calls, histvars >>

\* LockSlow as it would be with guard.insert(name, new mutex) in place of
\* entry(name).or_default(): the slow path always installs a fresh mutex.
LockSlowFresh(t) ==
    /\ pc[t] = "lock_slow"
    /\ mutexes' = Append(mutexes, NoTask)
    /\ connect_locks' = [connect_locks EXCEPT ![server[t]] = Len(mutexes) + 1]
    /\ lock' = [lock EXCEPT ![t] = Len(mutexes) + 1]
    /\ pc' = [pc EXCEPT ![t] = "lock_wait"]
    /\ UNCHANGED << pool, sessions, config, config_mtime, file, othervars,
                    tool, server, conn, observed, params, current_mtime, new_config,
                    servers_to_evict, futs, result, calls, histvars >>

\* connect_lock, slow path: guard.entry(name).or_default() under the write
\* lock creates the mutex only when the entry is still vacant.
LockSlow(t) ==
    /\ pc[t] = "lock_slow"
    /\ IF connect_locks[server[t]] = NoConn
       THEN /\ mutexes' = Append(mutexes, NoTask)
            /\ connect_locks' = [connect_locks EXCEPT ![server[t]] = Len(mutexes) + 1]
            /\ lock' = [lock EXCEPT ![t] = Len(mutexes) + 1]
       ELSE /\ lock' = [lock EXCEPT ![t] = connect_locks[server[t]]]
            /\ UNCHANGED << mutexes, connect_locks >>
    /\ pc' = [pc EXCEPT ![t] = "lock_wait"]
    /\ UNCHANGED << pool, sessions, config, config_mtime, file, othervars,
                    tool, server, conn, observed, params, current_mtime, new_config,
                    servers_to_evict, futs, result, calls, histvars >>

\* lock.lock().await: waits until the connect mutex is free.
LockAcquire(t) ==
    /\ pc[t] = "lock_wait"
    /\ mutexes[lock[t]] = NoTask
    /\ mutexes' = [mutexes EXCEPT ![lock[t]] = t]
    /\ pc' = [pc EXCEPT ![t] = "get2_read"]
    /\ UNCHANGED << pool, connect_locks, sessions, config, config_mtime, file, othervars,
                    tool, server, conn, observed, params, lock, current_mtime, new_config,
                    servers_to_evict, futs, result, calls, histvars >>

\* Get2Read as it would be without the re-check: connect once the lock is held.
Get2ReadSkipped(t) ==
    /\ pc[t] = "get2_read"
    /\ pc' = [pc EXCEPT ![t] = "connect"]
    /\ UNCHANGED << pool, connect_locks, mutexes, sessions, config, config_mtime, file, othervars,
                    tool, server, conn, observed, params, lock, current_mtime, new_config,
                    servers_to_evict, futs, result, calls, histvars >>

\* Re-check of the pool under the connect lock; a miss goes on to connect.
Get2Read(t) == GetRead(t, "get2_read", "get2_closed", "connect")
Get2Closed(t) == GetClosed(t, "get2_closed", "get2_evict", "handler")
Get2Evict(t) == GetEvict(t, "get2_evict", "connect")

\* try_auto_connect: SshConnection::connect(params) is entered.
ConnectBegin(t) ==
    /\ pc[t] = "connect"
    /\ connects' = [connects EXCEPT ![server[t]] = @ + 1]
    /\ pc' = [pc EXCEPT ![t] = "connecting"]
    /\ UNCHANGED << pool, connect_locks, mutexes, sessions, config, config_mtime, file, othervars,
                    tool, server, conn, observed, params, lock, current_mtime, new_config,
                    servers_to_evict, futs, result, calls, connect_failures, cleaned,
                    closed_at_start, snap, configured >>

\* SshConnection::connect returns Ok: a new session, force_closed = false.
ConnectOk(t) ==
    /\ pc[t] = "connecting"
    /\ Len(sessions) < MaxSessions
    /\ sessions' = Append(sessions, [alias |-> server[t], params |-> params[t],
                                     alive |-> TRUE, force_closed |-> FALSE,
                                     mutex |-> NoTask])
    /\ conn' = [conn EXCEPT ![t] = Len(sessions) + 1]
    /\ pc' = [pc EXCEPT ![t] = "insert"]
    /\ UNCHANGED << pool, connect_locks, mutexes, config, config_mtime, file, othervars,
                    tool, server, observed, params, lock, current_mtime, new_config,
                    servers_to_evict, futs, result, calls, histvars >>

\* What SshConnection::connect fails with: the TCP connect or handshake, or
\* the authentication.
ConnectErrors == {"Failed to connect to SSH server", "Key authentication failed"}

\* The error resolve_connection formats when the auto-connect failed.
AutoConnectFailed(name, e) ==
    "Error: server '" \o name \o "' is configured but auto-connect failed: " \o e

\* ConnectFail as it would be if the connect guard outlived the failed call.
ConnectFailHoldsLock(t) ==
    /\ pc[t] = "connecting"
    /\ \E e \in ConnectErrors :
            result' = [result EXCEPT ![t] = AutoConnectFailed(server[t], e)]
    /\ connect_failures' = connect_failures + 1
    /\ lock' = [lock EXCEPT ![t] = NoConn]
    /\ pc' = [pc EXCEPT ![t] = "done"]
    /\ UNCHANGED << pool, connect_locks, mutexes, sessions, config, config_mtime, file, othervars,
                    tool, server, conn, observed, params, current_mtime, new_config,
                    servers_to_evict, futs, calls, connects, cleaned, closed_at_start,
                    snap, configured >>

\* SshConnection::connect returns Err: the auto-connect error is returned
\* and the connect lock released.
ConnectFail(t) ==
    /\ pc[t] = "connecting"
    /\ \E e \in ConnectErrors :
            result' = [result EXCEPT ![t] = AutoConnectFailed(server[t], e)]
    /\ connect_failures' = connect_failures + 1
    /\ mutexes' = Released(t)
    /\ lock' = [lock EXCEPT ![t] = NoConn]
    /\ pc' = [pc EXCEPT ![t] = "done"]
    /\ UNCHANGED << pool, connect_locks, sessions, config, config_mtime, file, othervars,
                    tool, server, conn, observed, params, current_mtime, new_config,
                    servers_to_evict, futs, calls, connects, cleaned, closed_at_start,
                    snap, configured >>

\* Insert as it would be if pool.insert returned before the map was written.
InsertUnpublished(t) ==
    /\ pc[t] = "insert"
    /\ mutexes' = Released(t)
    /\ lock' = [lock EXCEPT ![t] = NoConn]
    /\ pc' = [pc EXCEPT ![t] = "handler"]
    /\ UNCHANGED << pool, connect_locks, sessions, config, config_mtime, file, othervars,
                    tool, server, conn, observed, params, current_mtime, new_config,
                    servers_to_evict, futs, result, calls, histvars >>

\* pool.insert(server, conn) under the write lock; resolve_connection then
\* returns and drops the connect guard.
Insert(t) ==
    /\ pc[t] = "insert"
    /\ pool' = [pool EXCEPT ![server[t]] = conn[t]]
    /\ mutexes' = Released(t)
    /\ lock' = [lock EXCEPT ![t] = NoConn]
    /\ pc' = [pc EXCEPT ![t] = "handler"]
    /\ UNCHANGED << connect_locks, sessions, config, config_mtime, file, othervars,
                    tool, server, conn, observed, params, current_mtime, new_config,
                    servers_to_evict, futs, result, calls, histvars >>

\* ------------------------------------------------------------ the handler
\* f.call(conn): the handler runs one command on the session (run_channel).
\* On a closed session the channel cannot be opened and the handler replies
\* with the error; on an open one the command runs, or the channel open
\* times out, which marks the session closed (mark_closed).
HandlerOutcomes(h) == IF IsClosed(h) THEN {"err"} ELSE {"ok", "open_timeout"}

Handler(t) ==
    /\ pc[t] = "handler"
    /\ \E o \in HandlerOutcomes(conn[t]) :
        /\ result' = [result EXCEPT ![t] = IF o = "ok" THEN "ok" ELSE "err"]
        /\ sessions' = IF o = "open_timeout"
                       THEN [sessions EXCEPT ![conn[t]].force_closed = TRUE]
                       ELSE sessions
    /\ pc' = [pc EXCEPT ![t] = "cleanup_check"]
    /\ UNCHANGED << pool, connect_locks, mutexes, config, config_mtime, file, othervars,
                    tool, server, conn, observed, params, lock, current_mtime, new_config,
                    servers_to_evict, futs, calls, histvars >>

\* ----------------------------------------------------------- run_channel
\* The handlers followed step by step: remote_bash runs conn.exec(cmd,
\* Some(timeout)), remote_write runs conn.write_file, which is
\* exec_raw(cmd, Some(content), Some(FILE_IO_TIMEOUT_MS)).
ExecTools == {"remote_bash", "remote_write"}
HasStdin(tl) == tl = "remote_write"

CHANNEL_OPEN_TIMEOUT_SECS == 10

ChannelOpenTimedOut ==
    "Timed out opening SSH channel (" \o ToString(CHANNEL_OPEN_TIMEOUT_SECS) \o "s)"
ChannelOpenFailed == "Failed to open channel"
ExecFailed == "Failed to execute command"
StdinFailed == "Failed to write to stdin"
EofFailed == "Failed to send EOF"
CommandTimedOut == "Command timed out"
NoExitStatus == "exit code -1"

\* The session mutex of h is released when t holds it.
SessionUnlocked(h, t) ==
    IF sessions[h].mutex = t THEN [sessions EXCEPT ![h].mutex = NoTask] ELSE sessions

\* The handler's exec fails with e: the error is the handler's reply.
ExecReturns(t, e) ==
    /\ result' = [result EXCEPT ![t] = e]
    /\ pc' = [pc EXCEPT ![t] = "cleanup_check"]

\* self.session.lock().await inside the channel-open timeout.
ChLock(t) ==
    /\ pc[t] = "handler"
    /\ tool[t] \in ExecTools
    /\ sessions[conn[t]].mutex = NoTask
    /\ sessions' = [sessions EXCEPT ![conn[t]].mutex = t]
    /\ pc' = [pc EXCEPT ![t] = "ch_opening"]
    /\ UNCHANGED << pool, connect_locks, mutexes, config, config_mtime, file, othervars,
                    tool, server, conn, observed, params, lock, current_mtime, new_config,
                    servers_to_evict, futs, result, calls, histvars >>

\* ChOpen as it would be if the session guard lived until run_channel returns.
ChOpenKeepsMutex(t) ==
    /\ pc[t] = "ch_opening"
    /\ IF sessions[conn[t]].alive
       THEN /\ pc' = [pc EXCEPT ![t] = "ch_exec"]
            /\ UNCHANGED << result, sessions >>
       ELSE /\ ExecReturns(t, ChannelOpenFailed)
            /\ sessions' = SessionUnlocked(conn[t], t)
    /\ UNCHANGED << pool, connect_locks, mutexes, config, config_mtime, file, othervars,
                    tool, server, conn, observed, params, lock, current_mtime, new_config,
                    servers_to_evict, futs, calls, histvars >>

\* session.channel_open_session().await completes: the channel, or the error
\* of a closed session; the session guard is dropped.
ChOpen(t) ==
    /\ pc[t] = "ch_opening"
    /\ sessions' = SessionUnlocked(conn[t], t)
    /\ IF sessions[conn[t]].alive
       THEN /\ pc' = [pc EXCEPT ![t] = "ch_exec"]
            /\ UNCHANGED result
       ELSE ExecReturns(t, ChannelOpenFailed)
    /\ UNCHANGED << pool, connect_locks, mutexes, config, config_mtime, file, othervars,
                    tool, server, conn, observed, params, lock, current_mtime, new_config,
                    servers_to_evict, futs, calls, histvars >>

\* ChOpenTimeout as it would be without mark_closed.
ChOpenTimeoutNoMark(t) ==
    /\ pc[t] \in {"handler", "ch_opening"}
    /\ tool[t] \in ExecTools
    /\ sessions' = SessionUnlocked(conn[t], t)
    /\ ExecReturns(t, ChannelOpenTimedOut)
    /\ UNCHANGED << pool, connect_locks, mutexes, config, config_mtime, file, othervars,
                    tool, server, conn, observed, params, lock, current_mtime, new_config,
                    servers_to_evict, futs, calls, histvars >>

\* The channel-open timeout fires while the task waits for the session mutex
\* or for channel_open_session: the guarded future is dropped, the session
\* is marked closed and the timeout error returned.
ChOpenTimeout(t) ==
    /\ pc[t] \in {"handler", "ch_opening"}
    /\ tool[t] \in ExecTools
    /\ sessions' = [SessionUnlocked(conn[t], t) EXCEPT ![conn[t]].force_closed = TRUE]
    /\ ExecReturns(t, ChannelOpenTimedOut)
    /\ UNCHANGED << pool, connect_locks, mutexes, config, config_mtime, file, othervars,
                    tool, server, conn, observed, params, lock, current_mtime, new_config,
                    servers_to_evict, futs, calls, histvars >>

\* channel.exec(true, full_command).await
ChExec(t) ==
    /\ pc[t] = "ch_exec"
    /\ IF sessions[conn[t]].alive
       THEN /\ pc' = [pc EXCEPT ![t] = IF HasStdin(tool[t]) THEN "ch_stdin" ELSE "ch_read"]
            /\ UNCHANGED result
       ELSE ExecReturns(t, ExecFailed)
    /\ UNCHANGED << pool, connect_locks, mutexes, sessions, config, config_mtime, file, othervars,
                    tool, server, conn, observed, params, lock, current_mtime, new_config,
                    servers_to_evict, futs, calls, histvars >>

\* The stdin chunks are written with channel.data(chunk).await, one
\* STDIN_CHUNK_SIZE chunk after the other; no timeout runs here.
ChStdin(t) ==
    /\ pc[t] = "ch_stdin"
    /\ IF sessions[conn[t]].alive
       THEN /\ pc' = [pc EXCEPT ![t] = "ch_eof"]
            /\ UNCHANGED result
       ELSE ExecReturns(t, StdinFailed)
    /\ UNCHANGED << pool, connect_locks, mutexes, sessions, config, config_mtime, file, othervars,
                    tool, server, conn, observed, params, lock, current_mtime, new_config,
                    servers_to_evict, futs, calls, histvars >>

\* channel.eof().await
ChEof(t) ==
    /\ pc[t] = "ch_eof"
    /\ IF sessions[conn[t]].alive
       THEN /\ pc' = [pc EXCEPT ![t] = "ch_read"]
            /\ UNCHANGED result
       ELSE ExecReturns(t, EofFailed)
    /\ UNCHANGED << pool, connect_locks, mutexes, sessions, config, config_mtime, file, othervars,
                    tool, server, conn, observed, params, lock, current_mtime, new_config,
                    servers_to_evict, futs, calls, histvars >>

\* The read loop ends (channel.wait() returned None): the output is
\* returned, with exit code -1 when no ExitStatus came (the transport went).
ChRead(t) ==
    /\ pc[t] = "ch_read"
    /\ ExecReturns(t, IF sessions[conn[t]].alive THEN "ok" ELSE NoExitStatus)
    /\ UNCHANGED << pool, connect_locks, mutexes, sessions, config, config_mtime, file, othervars,
                    tool, server, conn, observed, params, lock, current_mtime, new_config,
                    servers_to_evict, futs, calls, histvars >>

\* ChReadTimeout as it would be if the command timeout marked the session closed.
ChReadTimeoutMarks(t) ==
    /\ pc[t] = "ch_read"
    /\ sessions' = [sessions EXCEPT ![conn[t]].force_closed = TRUE]
    /\ ExecReturns(t, CommandTimedOut)
    /\ UNCHANGED << pool, connect_locks, mutexes, config, config_mtime, file, othervars,
                    tool, server, conn, observed, params, lock, current_mtime, new_config,
                    servers_to_evict, futs, calls, histvars >>

\* tokio::time::timeout(timeout, read_loop) elapses: the read loop, and the
\* channel with it, is dropped and the command-timeout error returned.
ChReadTimeout(t) ==
    /\ pc[t] = "ch_read"
    /\ ExecReturns(t, CommandTimedOut)
    /\ UNCHANGED << pool, connect_locks, mutexes, sessions, config, config_mtime, file, othervars,
                    tool, server, conn, observed, params, lock, current_mtime, new_config,
                    servers_to_evict, futs, calls, histvars >>

\* ------------------------------------------------------- cleanup_if_dead
\* CleanupCheck as it would be if a call that finds its session closed went
\* back to resolve a connection and run its handler again.
CleanupCheckRetry(t) ==
    /\ pc[t] = "cleanup_check"
    /\ IsClosedReady(conn[t])
    /\ cleaned' = [cleaned EXCEPT ![t] = IsClosed(conn[t])]
    /\ pc' = [pc EXCEPT ![t] = IF IsClosed(conn[t]) THEN "get1_read" ELSE "done"]
    /\ UNCHANGED << pool, connect_locks, mutexes, sessions, config, config_mtime, file, othervars,
                    tool, server, conn, observed, params, lock, current_mtime, new_config,
                    servers_to_evict, futs, result, calls, connects, connect_failures,
                    closed_at_start, snap, configured >>

\* conn.is_closed().await on the handle the call used.
CleanupCheck(t) ==
    /\ pc[t] = "cleanup_check"
    /\ IsClosedReady(conn[t])
    /\ cleaned' = [cleaned EXCEPT ![t] = IsClosed(conn[t])]
    /\ pc' = [pc EXCEPT ![t] = IF IsClosed(conn[t]) THEN "cleanup_remove" ELSE "done"]
    /\ UNCHANGED << pool, connect_locks, mutexes, sessions, config, config_mtime, file, othervars,
                    tool, server, conn, observed, params, lock, current_mtime, new_config,
                    servers_to_evict, futs, result, calls, connects, connect_failures,
                    closed_at_start, snap, configured >>

\* CleanupRemove as it would be if the removal were forgotten.
CleanupRemoveNothing(t) ==
    /\ pc[t] = "cleanup_remove"
    /\ pc' = [pc EXCEPT ![t] = "done"]
    /\ UNCHANGED << pool, connect_locks, mutexes, sessions, config, config_mtime, file, othervars,
                    tool, server, conn, observed, params, lock, current_mtime, new_config,
                    servers_to_evict, futs, result, calls, histvars >>

\* drop(self.pool.remove(server).await): whatever is pooled under server goes.
CleanupRemove(t) ==
    /\ pc[t] = "cleanup_remove"
    /\ pool' = [pool EXCEPT ![server[t]] = NoConn]
    /\ pc' = [pc EXCEPT ![t] = "done"]
    /\ UNCHANGED << connect_locks, mutexes, sessions, config, config_mtime, file, othervars,
                    tool, server, conn, observed, params, lock, current_mtime, new_config,
                    servers_to_evict, futs, result, calls, histvars >>

\* list_servers' handler: reads the pool and the registry.
ListHandle(t) ==
    /\ pc[t] = "list"
    /\ result' = [result EXCEPT ![t] = "ok"]
    /\ pc' = [pc EXCEPT ![t] = "done"]
    /\ snap' = IF snap.task = t THEN NoSnap ELSE snap
    /\ UNCHANGED << pool, connect_locks, mutexes, sessions, config, config_mtime, file, othervars,
                    tool, server, conn, observed, params, lock, current_mtime, new_config,
                    servers_to_evict, futs, calls, connects, connect_failures, cleaned,
                    closed_at_start, configured >>

\* The tool call returns its reply; the task's locals are gone.
Return(t) ==
    /\ pc[t] = "done"
    /\ pc' = [pc EXCEPT ![t] = "idle"]
    /\ tool' = [tool EXCEPT ![t] = "none"]
    /\ server' = [server EXCEPT ![t] = "none"]
    /\ conn' = [conn EXCEPT ![t] = NoConn]
    /\ params' = [params EXCEPT ![t] = NoParams]
    /\ current_mtime' = [current_mtime EXCEPT ![t] = 0]
    /\ new_config' = [new_config EXCEPT ![t] = RegEmpty]
    /\ result' = [result EXCEPT ![t] = "none"]
    /\ cleaned' = [cleaned EXCEPT ![t] = FALSE]
    /\ closed_at_start' = [closed_at_start EXCEPT ![t] = {}]
    /\ UNCHANGED << pool, connect_locks, mutexes, sessions, config, config_mtime, file, othervars,
                    observed, lock, servers_to_evict, futs, calls, connects,
                    connect_failures, snap, configured >>

\* ----------------------------------------------------------- cancellation
\* Cancel as it would be if the guards of a dropped call stayed locked.
CancelKeepsLocks(t) ==
    /\ pc[t] \notin {"idle", "done"}
    /\ sessions' = IF pc[t] = "insert"
                   THEN [sessions EXCEPT ![conn[t]].alive = FALSE]
                   ELSE sessions
    /\ pc' = [pc EXCEPT ![t] = "idle"]
    /\ tool' = [tool EXCEPT ![t] = "none"]
    /\ server' = [server EXCEPT ![t] = "none"]
    /\ conn' = [conn EXCEPT ![t] = NoConn]
    /\ observed' = [observed EXCEPT ![t] = NoConn]
    /\ params' = [params EXCEPT ![t] = NoParams]
    /\ lock' = [lock EXCEPT ![t] = NoConn]
    /\ current_mtime' = [current_mtime EXCEPT ![t] = 0]
    /\ new_config' = [new_config EXCEPT ![t] = RegEmpty]
    /\ servers_to_evict' = [servers_to_evict EXCEPT ![t] = {}]
    /\ futs' = [futs EXCEPT ![t] = {}]
    /\ result' = [result EXCEPT ![t] = "none"]
    /\ cleaned' = [cleaned EXCEPT ![t] = FALSE]
    /\ closed_at_start' = [closed_at_start EXCEPT ![t] = {}]
    /\ snap' = IF snap.task = t THEN NoSnap ELSE snap
    /\ UNCHANGED << pool, connect_locks, mutexes, config, config_mtime, file, othervars, calls,
                    connects, connect_failures, configured >>

\* The caller drops the future of a tool call at one of its await points:
\* the locals of the call are dropped, among them the connect guard
\* (resolve_connection's _guard), the session guard of a channel open and a
\* session that was connected and not yet inserted.
Cancel(t) ==
    /\ pc[t] \notin {"idle", "done"}
    /\ mutexes' = Released(t)
    /\ sessions' = IF pc[t] = "insert"
                   THEN [sessions EXCEPT ![conn[t]].alive = FALSE]
                   ELSE IF conn[t] /= NoConn THEN SessionUnlocked(conn[t], t)
                   ELSE sessions
    /\ pc' = [pc EXCEPT ![t] = "idle"]
    /\ tool' = [tool EXCEPT ![t] = "none"]
    /\ server' = [server EXCEPT ![t] = "none"]
    /\ conn' = [conn EXCEPT ![t] = NoConn]
    /\ observed' = [observed EXCEPT ![t] = NoConn]
    /\ params' = [params EXCEPT ![t] = NoParams]
    /\ lock' = [lock EXCEPT ![t] = NoConn]
    /\ current_mtime' = [current_mtime EXCEPT ![t] = 0]
    /\ new_config' = [new_config EXCEPT ![t] = RegEmpty]
    /\ servers_to_evict' = [servers_to_evict EXCEPT ![t] = {}]
    /\ futs' = [futs EXCEPT ![t] = {}]
    /\ result' = [result EXCEPT ![t] = "none"]
    /\ cleaned' = [cleaned EXCEPT ![t] = FALSE]
    /\ closed_at_start' = [closed_at_start EXCEPT ![t] = {}]
    /\ snap' = IF snap.task = t THEN NoSnap ELSE snap
    /\ UNCHANGED << pool, connect_locks, config, config_mtime, file, othervars, calls,
                    connects, connect_failures, configured >>

\* ------------------------------------------------------- the environment
\* The transport of a session dies (keepalive failure, peer reset).
TransportDies(h) ==
    /\ h \in Handles
    /\ sessions[h].alive
    /\ sessions' = [sessions EXCEPT ![h].alive = FALSE]
    /\ UNCHANGED << pool, connect_locks, mutexes, config, config_mtime, file, othervars,
                    taskvars, calls, histvars >>

\* `ssh-hub add/remove/refresh` or an editor rewrites the registry file.
WriteFile(ok, reg, limit) ==
    /\ file.mtime < limit
    /\ file' = [ok |-> ok, reg |-> reg, mtime |-> file.mtime + 1]
    /\ UNCHANGED << pool, connect_locks, mutexes, sessions, config, config_mtime,
                    taskvars, calls, histvars, othervars >>

\* ------------------------------------------------------ Session::connect
\* known_hosts::check_known_hosts(host, port, key) on the known-hosts file:
\* the recorded key matches, no key is recorded, another key is recorded, or
\* the file cannot be read.
check_known_hosts(kh, key) ==
    IF ~kh.readable THEN "Err"
    ELSE IF kh.rec = key THEN "Ok(true)"
    ELSE IF kh.rec = NoKey THEN "Ok(false)"
    ELSE "KeyChanged"

\* known_hosts::learn_known_hosts(host, port, key): appends the binding; on a
\* file that cannot be written it fails and the file is as before.
learn_known_hosts(kh, key) ==
    IF kh.writable THEN [kh EXCEPT !.rec = key] ELSE kh

\* What Session::connect returns: the error chain, outermost context first;
\* << "Ok" >> for a Session.
ConnectOkResult == << "Ok" >>
ConnectContext == "Failed to connect to SSH server"
HostKeyChanged == "HOST KEY VERIFICATION FAILED"
NoIdentityError == "Auth method is 'key' but no identity file specified"
KeyAuthFailed == "Key authentication failed"
AgentUnreachable == "Failed to connect to SSH agent (is SSH_AUTH_SOCK set?)"
AgentListFailed == "Failed to list keys from SSH agent"
AgentEmpty == "SSH agent has no keys. Run 'ssh-add' first."
AgentNoneAccepted(total, try_count) ==
    "SSH agent has " \o ToString(total) \o " key(s) but none of the first "
        \o ToString(try_count) \o " were accepted"
AuthenticationFailed(tried) ==
    "Authentication failed. Tried: " \o Join(tried)
        \o ". Check your credentials and run 'ssh-hub add' to reconfigure."

MAX_AGENT_KEYS == 10

\* total.min(MAX_AGENT_KEYS)
TryCount(total) == IF total < MAX_AGENT_KEYS THEN total ELSE MAX_AGENT_KEYS

\* query_rsa_hash: the server's preference, SHA-256 when it advertises none or
\* the query fails.  "None" is Some(None): plain ssh-rsa.
query_rsa_hash(answer) ==
    CASE answer = "sha512" -> "Sha512"
      [] answer = "sha256" -> "Sha256"
      [] answer = "ssh-rsa" -> "None"
      [] answer = "unadvertised" -> "Sha256"
      [] answer = "error" -> "Sha256"

\* rsa_hash_for_key: the cached hash for an RSA key, no hint for another.
rsa_hash_for_key(alg, cached) == IF alg = "rsa" THEN cached ELSE "None"

\* A connect is started: Session::connect(params) is called.
ConnectStart(limit) ==
    /\ cpc \in {"idle", "done"}
    /\ n_connects < limit
    /\ n_connects' = n_connects + 1
    /\ server_key' = NoKey
    /\ cpc' = "tcp"
    /\ rung' = "none"
    /\ agent_i' = 0
    /\ cached_rsa_hash' = "unset"
    /\ methods_tried' = << >>
    /\ cresult' = << >>
    /\ attempts' = << >>
    /\ rsa_queries' = 0
    /\ loads' = << >>
    /\ agent_contacts' = 0
    /\ accepts' = 0
    /\ UNCHANGED << known_hosts, cparams, keyfiles, agent, server_rsa, accepted_keys,
                    sighted, servervars, utilvars, openvars >>

\* client::connect: the transport is up and the server presents its host key
\* in the key exchange.
KeyExchange(keys) ==
    /\ cpc = "tcp"
    /\ \E k \in keys : server_key' = k
    /\ cpc' = "handshake"
    /\ UNCHANGED << known_hosts, cparams, keyfiles, agent, server_rsa,
                    rung, agent_i, cached_rsa_hash, methods_tried, cresult, n_connects,
                    attempts, rsa_queries, loads, agent_contacts, accepted_keys, accepts, sighted,
                    servervars, utilvars, openvars >>

\* client::connect fails before the host key is seen (TCP, handshake).
ConnectNetFail ==
    /\ cpc = "tcp"
    /\ cresult' = << ConnectContext >>
    /\ cpc' = "done"
    /\ UNCHANGED << known_hosts, server_key, cparams, keyfiles, agent, server_rsa,
                    rung, agent_i, cached_rsa_hash, methods_tried, n_connects,
                    attempts, rsa_queries, loads, agent_contacts, accepted_keys, accepts, sighted,
                    servervars, utilvars, openvars >>

\* check_server_key as it would be if a changed key were learned like a new one.
CheckServerKeyRelearns ==
    /\ cpc = "handshake"
    /\ LET r == check_known_hosts(known_hosts, server_key) IN
        /\ known_hosts' = IF r \in {"Ok(false)", "KeyChanged"}
                          THEN learn_known_hosts(known_hosts, server_key)
                          ELSE known_hosts
        /\ sighted' = IF r \in {"Ok(false)", "KeyChanged"} THEN server_key ELSE sighted
        /\ accepted_keys' = Append(accepted_keys, server_key)
        /\ cpc' = "authenticate"
        /\ UNCHANGED cresult
    /\ UNCHANGED << server_key, cparams, keyfiles, agent, server_rsa,
                    rung, agent_i, cached_rsa_hash, methods_tried, n_connects,
                    attempts, rsa_queries, loads, agent_contacts, accepts,
                    servervars, utilvars, openvars >>

\* SshHandler::check_server_key, called by the handshake of client::connect:
\* a recorded key is accepted, a new one learned and accepted, a changed one
\* fails the connect, and a check that fails otherwise accepts the key.
CheckServerKey ==
    /\ cpc = "handshake"
    /\ LET r == check_known_hosts(known_hosts, server_key) IN
        IF r = "KeyChanged"
        THEN /\ cresult' = << ConnectContext, HostKeyChanged >>
             /\ cpc' = "done"
             /\ UNCHANGED << known_hosts, accepted_keys, sighted >>
        ELSE /\ known_hosts' = IF r = "Ok(false)"
                               THEN learn_known_hosts(known_hosts, server_key)
                               ELSE known_hosts
             /\ sighted' = IF r = "Ok(false)" THEN server_key ELSE sighted
             /\ accepted_keys' = Append(accepted_keys, server_key)
             /\ cpc' = "authenticate"
             /\ UNCHANGED cresult
    /\ UNCHANGED << server_key, cparams, keyfiles, agent, server_rsa,
                    rung, agent_i, cached_rsa_hash, methods_tried, n_connects,
                    attempts, rsa_queries, loads, agent_contacts, accepts,
                    servervars, utilvars, openvars >>

\* Authenticate as it would be if method key without an identity fell back to
\* the agent.
AuthenticateFallsBack ==
    /\ cpc = "authenticate"
    /\ CASE cparams.auth_method = "auto" ->
                IF cparams.identity /= NoIdentity
                THEN rung' = "identity" /\ cpc' = "key_load" /\ UNCHANGED cresult
                ELSE rung' = "agent" /\ cpc' = "agent_connect" /\ UNCHANGED cresult
         [] cparams.auth_method = "agent" ->
                rung' = "agent" /\ cpc' = "agent_connect" /\ UNCHANGED cresult
         [] cparams.auth_method = "key" ->
                IF cparams.identity = NoIdentity
                THEN rung' = "agent" /\ cpc' = "agent_connect" /\ UNCHANGED cresult
                ELSE rung' = "identity" /\ cpc' = "key_load" /\ UNCHANGED cresult
    /\ UNCHANGED << known_hosts, server_key, cparams, keyfiles, agent, server_rsa,
                    agent_i, cached_rsa_hash, methods_tried, n_connects,
                    attempts, rsa_queries, loads, agent_contacts, accepted_keys, accepts, sighted,
                    servervars, utilvars, openvars >>

\* authenticate: the rung the configured method starts with.
Authenticate ==
    /\ cpc = "authenticate"
    /\ CASE cparams.auth_method = "auto" ->
                IF cparams.identity /= NoIdentity
                THEN rung' = "identity" /\ cpc' = "key_load" /\ UNCHANGED cresult
                ELSE rung' = "agent" /\ cpc' = "agent_connect" /\ UNCHANGED cresult
         [] cparams.auth_method = "agent" ->
                rung' = "agent" /\ cpc' = "agent_connect" /\ UNCHANGED cresult
         [] cparams.auth_method = "key" ->
                IF cparams.identity = NoIdentity
                THEN cresult' = << NoIdentityError >> /\ cpc' = "done" /\ UNCHANGED rung
                ELSE rung' = "identity" /\ cpc' = "key_load" /\ UNCHANGED cresult
    /\ UNCHANGED << known_hosts, server_key, cparams, keyfiles, agent, server_rsa,
                    agent_i, cached_rsa_hash, methods_tried, n_connects,
                    attempts, rsa_queries, loads, agent_contacts, accepted_keys, accepts, sighted,
                    servervars, utilvars, openvars >>

\* The default-keys loop of authenticate_auto from its k-th name on: the
\* next key file that exists is tried; after the last one "default keys" is
\* pushed and the authentication fails with the methods tried.
DefaultsFrom(k, tried) ==
    LET existing == {j \in k..Len(DefaultKeys) : keyfiles[DefaultKeys[j]] /= "absent"} IN
    IF existing /= {}
    THEN /\ rung' = DefaultKeys[CHOOSE j \in existing : \A i \in existing : j <= i]
         /\ cpc' = "key_load"
         /\ methods_tried' = tried
         /\ UNCHANGED cresult
    ELSE /\ methods_tried' = Append(tried, "default keys")
         /\ cresult' = << AuthenticationFailed(Append(tried, "default keys")) >>
         /\ cpc' = "done"
         /\ UNCHANGED rung

\* The position of a default key in DefaultKeys.
DefaultIndex(name) == CHOOSE j \in 1..Len(DefaultKeys) : DefaultKeys[j] = name

\* try_agent_auth returns Err(e) to authenticate (method agent) or to
\* authenticate_auto, which pushes "agent" and goes on to the default keys.
AgentFails(e) ==
    IF cparams.auth_method = "agent"
    THEN /\ cresult' = << e >>
         /\ cpc' = "done"
         /\ UNCHANGED << rung, methods_tried >>
    ELSE DefaultsFrom(1, Append(methods_tried, "agent"))

\* try_key_auth returns Ok(false): method key fails; authenticate_auto pushes
\* "identity file" and goes on to the agent, or goes on to the next default key.
KeyFails ==
    IF cparams.auth_method = "key"
    THEN /\ cresult' = << KeyAuthFailed >>
         /\ cpc' = "done"
         /\ UNCHANGED << rung, methods_tried >>
    ELSE IF rung = "identity"
    THEN /\ methods_tried' = Append(methods_tried, "identity file")
         /\ rung' = "agent"
         /\ cpc' = "agent_connect"
         /\ UNCHANGED cresult
    ELSE DefaultsFrom(DefaultIndex(rung) + 1, methods_tried)

\* The server accepts the key: try_key_auth / try_agent_auth return success,
\* authenticate returns Ok(()) and Session::connect builds the Session.
Authenticated ==
    /\ accepts' = accepts + 1
    /\ cresult' = ConnectOkResult
    /\ cpc' = "done"
    /\ UNCHANGED << rung, methods_tried >>

\* try_key_auth: load_secret_key(key_path) in spawn_blocking; a key that
\* cannot be loaded makes try_key_auth return Ok(false).
KeyLoad ==
    /\ cpc = "key_load"
    /\ loads' = Append(loads, rung)
    /\ IF keyfiles[rung] \in {"absent", "malformed"}
       THEN KeyFails
       ELSE cpc' = "key_query" /\ UNCHANGED << rung, methods_tried, cresult >>
    /\ UNCHANGED << known_hosts, server_key, cparams, keyfiles, agent, server_rsa,
                    agent_i, cached_rsa_hash, n_connects,
                    attempts, rsa_queries, agent_contacts, accepted_keys, accepts, sighted,
                    servervars, utilvars, openvars >>

\* try_key_auth: let cached_rsa_hash = query_rsa_hash(session).await.
KeyQuery ==
    /\ cpc = "key_query"
    /\ rsa_queries' = rsa_queries + 1
    /\ cached_rsa_hash' = query_rsa_hash(server_rsa)
    /\ cpc' = "key_auth"
    /\ UNCHANGED << known_hosts, server_key, cparams, keyfiles, agent, server_rsa,
                    rung, agent_i, methods_tried, cresult, n_connects,
                    attempts, loads, agent_contacts, accepted_keys, accepts, sighted,
                    servervars, utilvars, openvars >>

\* The server's answers to a public-key attempt: accepted, rejected, or the
\* request fails.
Replies == {"accept", "reject", "error"}

\* KeyAuth as it would be if a request that fails ended the authentication.
KeyAuthErrorFatal ==
    /\ cpc = "key_auth"
    /\ attempts' = Append(attempts,
            [src |-> rung, idx |-> 0, alg |-> keyfiles[rung],
             hash |-> rsa_hash_for_key(keyfiles[rung], cached_rsa_hash)])
    /\ \E reply \in Replies :
            CASE reply = "accept" -> Authenticated
              [] reply = "reject" -> KeyFails /\ UNCHANGED accepts
              [] reply = "error" -> /\ cresult' = << KeyAuthFailed >>
                                    /\ cpc' = "done"
                                    /\ UNCHANGED << rung, methods_tried, accepts >>
    /\ UNCHANGED << known_hosts, server_key, cparams, keyfiles, agent, server_rsa,
                    agent_i, cached_rsa_hash, n_connects,
                    rsa_queries, loads, agent_contacts, accepted_keys, sighted,
                    servervars, utilvars, openvars >>

\* try_key_auth: session.authenticate_publickey(user, key_with_alg).await.
KeyAuth ==
    /\ cpc = "key_auth"
    /\ attempts' = Append(attempts,
            [src |-> rung, idx |-> 0, alg |-> keyfiles[rung],
             hash |-> rsa_hash_for_key(keyfiles[rung], cached_rsa_hash)])
    /\ \E reply \in Replies :
            IF reply = "accept" THEN Authenticated ELSE KeyFails /\ UNCHANGED accepts
    /\ UNCHANGED << known_hosts, server_key, cparams, keyfiles, agent, server_rsa,
                    agent_i, cached_rsa_hash, n_connects,
                    rsa_queries, loads, agent_contacts, accepted_keys, sighted,
                    servervars, utilvars, openvars >>

\* try_agent_auth: AgentClient::connect_env().await.
AgentConnect ==
    /\ cpc = "agent_connect"
    /\ agent_contacts' = agent_contacts + 1
    /\ IF agent.state = "unreachable"
       THEN AgentFails(AgentUnreachable)
       ELSE cpc' = "agent_list" /\ UNCHANGED << rung, methods_tried, cresult >>
    /\ UNCHANGED << known_hosts, server_key, cparams, keyfiles, agent, server_rsa,
                    agent_i, cached_rsa_hash, n_connects,
                    attempts, rsa_queries, loads, accepted_keys, accepts, sighted,
                    servervars, utilvars, openvars >>

\* try_agent_auth: agent.request_identities().await, and the empty list.
AgentList ==
    /\ cpc = "agent_list"
    /\ IF agent.state = "no_list" THEN AgentFails(AgentListFailed)
       ELSE IF Len(agent.keys) = 0 THEN AgentFails(AgentEmpty)
       ELSE cpc' = "agent_query" /\ UNCHANGED << rung, methods_tried, cresult >>
    /\ UNCHANGED << known_hosts, server_key, cparams, keyfiles, agent, server_rsa,
                    agent_i, cached_rsa_hash, n_connects,
                    attempts, rsa_queries, loads, agent_contacts, accepted_keys, accepts, sighted,
                    servervars, utilvars, openvars >>

\* try_agent_auth: let cached_rsa_hash = query_rsa_hash(session).await, once
\* for all the agent's keys; the loop starts at the first key.
AgentQuery ==
    /\ cpc = "agent_query"
    /\ rsa_queries' = rsa_queries + 1
    /\ cached_rsa_hash' = query_rsa_hash(server_rsa)
    /\ agent_i' = 1
    /\ cpc' = "agent_auth"
    /\ UNCHANGED << known_hosts, server_key, cparams, keyfiles, agent, server_rsa,
                    rung, methods_tried, cresult, n_connects,
                    attempts, loads, agent_contacts, accepted_keys, accepts, sighted,
                    servervars, utilvars, openvars >>

\* AgentAuth as it would be if the loop ran over all the agent's keys.
AgentAuthAllKeys ==
    /\ cpc = "agent_auth"
    /\ attempts' = Append(attempts,
            [src |-> "agent", idx |-> agent_i, alg |-> agent.keys[agent_i],
             hash |-> rsa_hash_for_key(agent.keys[agent_i], cached_rsa_hash)])
    /\ \E reply \in Replies :
            IF reply = "accept"
            THEN Authenticated /\ UNCHANGED agent_i
            ELSE IF agent_i < Len(agent.keys)
            THEN /\ agent_i' = agent_i + 1
                 /\ UNCHANGED << cpc, rung, methods_tried, cresult, accepts >>
            ELSE /\ AgentFails(AgentNoneAccepted(Len(agent.keys), Len(agent.keys)))
                 /\ UNCHANGED << agent_i, accepts >>
    /\ UNCHANGED << known_hosts, server_key, cparams, keyfiles, agent, server_rsa,
                    cached_rsa_hash, n_connects,
                    rsa_queries, loads, agent_contacts, accepted_keys, sighted,
                    servervars, utilvars, openvars >>

\* try_agent_auth: one turn of the loop over identities.iter().take(try_count):
\* session.authenticate_publickey_with(user, key, hash_alg, agent).await; a
\* rejection or an error goes on to the next key, and after the last of the
\* try_count keys try_agent_auth fails.
AgentAuth ==
    /\ cpc = "agent_auth"
    /\ attempts' = Append(attempts,
            [src |-> "agent", idx |-> agent_i, alg |-> agent.keys[agent_i],
             hash |-> rsa_hash_for_key(agent.keys[agent_i], cached_rsa_hash)])
    /\ \E reply \in Replies :
            IF reply = "accept"
            THEN Authenticated /\ UNCHANGED agent_i
            ELSE IF agent_i < TryCount(Len(agent.keys))
            THEN /\ agent_i' = agent_i + 1
                 /\ UNCHANGED << cpc, rung, methods_tried, cresult, accepts >>
            ELSE /\ AgentFails(AgentNoneAccepted(Len(agent.keys),
                                                 TryCount(Len(agent.keys))))
                 /\ UNCHANGED << agent_i, accepts >>
    /\ UNCHANGED << known_hosts, server_key, cparams, keyfiles, agent, server_rsa,
                    cached_rsa_hash, n_connects,
                    rsa_queries, loads, agent_contacts, accepted_keys, sighted,
                    servervars, utilvars, openvars >>

\* The permissions of the known-hosts file change (chmod, a read-only home).
KnownHostsPerm(r, w) ==
    /\ cpc \in {"idle", "done"}
    /\ << known_hosts.readable, known_hosts.writable >> /= << r, w >>
    /\ known_hosts' = [known_hosts EXCEPT !.readable = r, !.writable = w]
    /\ UNCHANGED << server_key, cparams, keyfiles, agent, server_rsa,
                    cpc, rung, agent_i, cached_rsa_hash, methods_tried, cresult,
                    n_connects, attempts, rsa_queries, loads, agent_contacts,
                    accepted_keys, accepts, sighted, servervars, utilvars, openvars >>

\* -------------------------------------------------- strings as sequences
\* A string is the sequence of its characters.
Strings(alphabet, n) == UNION {[1..k -> alphabet] : k \in 0..n}

\* str.find(c): the position of the first c in s, 0 when there is none.
Find(s, c) ==
    IF \E i \in 1..Len(s) : s[i] = c
    THEN CHOOSE i \in 1..Len(s) : s[i] = c /\ \A j \in 1..(i - 1) : s[j] /= c
    ELSE 0

\* str.split_once(c): the parts before and after the first c.
split_once(s, c) ==
    LET i == Find(s, c) IN
    [found |-> i /= 0,
     left |-> IF i = 0 THEN s ELSE SubSeq(s, 1, i - 1),
     right |-> IF i = 0 THEN << >> ELSE SubSeq(s, i + 1, Len(s))]

\* str.starts_with(prefix)
starts_with(s, prefix) ==
    Len(prefix) <= Len(s) /\ SubSeq(s, 1, Len(prefix)) = prefix

\* ------------------------------------------------ parse_connection_string
DEFAULT_PORT == 22
DEFAULT_REMOTE_PATH == << "~" >>
U16_MAX == 65535

Digits == {"2", "9"}
DigitValue(c) == IF c = "2" THEN 2 ELSE 9

\* The number a string of digits denotes.
RECURSIVE DecimalValue(_)
DecimalValue(s) ==
    IF Len(s) = 0 THEN 0
    ELSE DecimalValue(SubSeq(s, 1, Len(s) - 1)) * 10 + DigitValue(s[Len(s)])

\* str.parse::<u16>(): a non-empty string of digits whose value fits 16 bits.
parse_u16(s) ==
    IF Len(s) = 0 \/ (\E i \in 1..Len(s) : s[i] \notin Digits) THEN [ok |-> FALSE, value |-> 0]
    ELSE IF DecimalValue(s) > U16_MAX THEN [ok |-> FALSE, value |-> 0]
    ELSE [ok |-> TRUE, value |-> DecimalValue(s)]

ParseError(msg) == [ok |-> FALSE, err |-> msg]

\* Ok(ConnectionInfo { user, host, port: port_override.unwrap_or(port), remote_path })
ConnectionInfo(user, host, port, path, port_override) ==
    [ok |-> TRUE, user |-> user, host |-> host,
     port |-> IF port_override /= NoPort THEN port_override ELSE port,
     remote_path |-> path]

\* parse_connection_string(connection, port_override).
parse_connection_string(connection, port_override) ==
    LET first == split_once(connection, ":")
        user_host == first.left
        rest == first.right
        uh == split_once(user_host, "@")
        user == uh.left
        host == uh.right
    IN  IF ~uh.found THEN ParseError("Invalid connection string: missing '@' in user@host")
        ELSE IF Len(user) = 0 THEN ParseError("Invalid connection string: empty username")
        ELSE IF Len(host) = 0 THEN ParseError("Invalid connection string: empty hostname")
        ELSE IF Len(rest) = 0
        THEN ConnectionInfo(user, host, DEFAULT_PORT, DEFAULT_REMOTE_PATH, port_override)
        ELSE IF starts_with(rest, << "/" >>)
        THEN ConnectionInfo(user, host, DEFAULT_PORT, rest, port_override)
        ELSE IF split_once(rest, ":").found
        THEN LET port == parse_u16(split_once(rest, ":").left)
                 path == split_once(rest, ":").right
             IN  IF ~port.ok THEN ParseError("Invalid port number")
                 ELSE IF Len(path) = 0
                 THEN ConnectionInfo(user, host, port.value, DEFAULT_REMOTE_PATH, port_override)
                 ELSE IF starts_with(path, << "/" >>)
                 THEN ConnectionInfo(user, host, port.value, path, port_override)
                 ELSE ParseError("Invalid connection string: path must start with '/'")
        ELSE LET port == parse_u16(rest)
             IN  IF ~port.ok
                 THEN ParseError("Invalid connection string: not a port number or path")
                 ELSE ConnectionInfo(user, host, port.value, DEFAULT_REMOTE_PATH, port_override)

\* `ssh-hub add <name> <connection> [--port N]` parses its connection string.
ParseConnectionString ==
    /\ u_op = "none"
    /\ u_op' = "parse_connection_string"
    /\ u_out' = parse_connection_string(u_in, u_port)
    /\ UNCHANGED << u_in, u_port, servervars, connvars, openvars >>

\* ------------------------------------------------------------ shell_escape
\* The characters \, " and the backquote, by name.
Backtick == "backquote"
Backslash == "backslash"
DoubleQuote == "dquote"

\* s.replace('\'', "'\\''"): every ' becomes the four characters '\''.
RECURSIVE ReplaceQuotes(_)
ReplaceQuotes(s) ==
    IF Len(s) = 0 THEN << >>
    ELSE (IF Head(s) = "'" THEN << "'", Backslash, "'", "'" >> ELSE << Head(s) >>)
            \o ReplaceQuotes(Tail(s))

\* shell_escape as it would be without the replacement of embedded quotes.
shell_escape_unreplaced(s) == << "'" >> \o s \o << "'" >>

\* shell_escape(s): format!("'{}'", s.replace('\'', "'\\''")).
shell_escape(s) == << "'" >> \o ReplaceQuotes(s) \o << "'" >>

Home == << "$", "H", "O", "M", "E" >>

\* shell_escape_remote_path(path).
shell_escape_remote_path(path) ==
    IF path = << "~" >> THEN Home
    ELSE IF starts_with(path, << "~", "/" >>)
    THEN Home \o << "/" >> \o shell_escape(SubSeq(path, 3, Len(path)))
    ELSE shell_escape(path)

\* run_channel's full_command: format!("cd {} && {}", escaped remote_path, command).
full_command(remote_path, command) ==
    << "c", "d", " " >> \o shell_escape_remote_path(remote_path)
        \o << " ", "&", "&", " " >> \o command

Text(s) == [ok |-> TRUE, text |-> s]

\* A tool escapes an argument for the remote shell.
ShellEscape ==
    /\ u_op = "none"
    /\ u_op' = "shell_escape"
    /\ u_out' = Text(shell_escape(u_in))
    /\ UNCHANGED << u_in, u_port, servervars, connvars, openvars >>

\* A tool escapes a remote path for the remote shell.
ShellEscapeRemotePath ==
    /\ u_op = "none"
    /\ u_op' = "shell_escape_remote_path"
    /\ u_out' = Text(shell_escape_remote_path(u_in))
    /\ UNCHANGED << u_in, u_port, servervars, connvars, openvars >>

\* The command run_channel is called with.
Command == << "l", "s" >>

\* run_channel builds the command it executes on a session whose remote_path
\* is the input.
RunChannelCommand ==
    /\ u_op = "none"
    /\ u_op' = "run_channel"
    /\ u_out' = Text(full_command(u_in, Command))
    /\ UNCHANGED << u_in, u_port, servervars, connvars, openvars >>

\* ---------------------------------------- run_channel's open, with the clock
\* The ticks after which tokio::time::timeout(CHANNEL_OPEN_TIMEOUT_SECS, ..)
\* elapses.
TimeoutTicks == CHANNEL_OPEN_TIMEOUT_SECS \div TickSecs

\* The tasks whose timeout future is running.
Opening == {t \in Tasks : o_pc[t] \in {"locking", "opening"}}

\* run_channel is called: the timeout future is started; it first awaits
\* self.session.lock().
OpenStart(t) ==
    /\ o_pc[t] = "idle"
    /\ o_calls < MaxOpens
    /\ o_calls' = o_calls + 1
    /\ o_pc' = [o_pc EXCEPT ![t] = "locking"]
    /\ o_timer' = [o_timer EXCEPT ![t] = 0]
    /\ o_open' = [o_open EXCEPT ![t] = 0]
    /\ o_result' = [o_result EXCEPT ![t] = "none"]
    /\ UNCHANGED << o_mutex, o_force_closed, servervars, connvars, utilvars >>

\* self.session.lock().await returns: the session mutex is free;
\* channel_open_session is sent.
OpenLock(t) ==
    /\ o_pc[t] = "locking"
    /\ o_mutex = NoTask
    /\ o_mutex' = t
    /\ o_pc' = [o_pc EXCEPT ![t] = "opening"]
    /\ UNCHANGED << o_timer, o_open, o_force_closed, o_result, o_calls,
                    servervars, connvars, utilvars >>

\* channel_open_session().await returns the channel before the timeout
\* elapsed: the session guard is dropped.
OpenDone(t) ==
    /\ o_pc[t] = "opening"
    /\ o_timer[t] < TimeoutTicks
    /\ o_mutex' = NoTask
    /\ o_pc' = [o_pc EXCEPT ![t] = "idle"]
    /\ o_result' = [o_result EXCEPT ![t] = "channel"]
    /\ UNCHANGED << o_timer, o_open, o_force_closed, o_calls,
                    servervars, connvars, utilvars >>

\* The timeout elapses, CHANNEL_OPEN_TIMEOUT_SECS after the timeout future
\* was started: the future is dropped, with the session guard if it holds
\* it, and mark_closed is called.
OpenTimeout(t) ==
    /\ t \in Opening
    /\ o_timer[t] = TimeoutTicks
    /\ o_force_closed' = TRUE
    /\ o_mutex' = IF o_mutex = t THEN NoTask ELSE o_mutex
    /\ o_pc' = [o_pc EXCEPT ![t] = "idle"]
    /\ o_result' = [o_result EXCEPT ![t] = ChannelOpenTimedOut]
    /\ UNCHANGED << o_timer, o_open, o_calls, servervars, connvars, utilvars >>

\* Time passes: one tick for every running timeout future and every
\* channel_open_session that is outstanding.  A timeout that has elapsed
\* fires, or its future completes, before more time passes; a free session
\* mutex is taken by a task that waits for it before time passes.
Tick ==
    /\ Opening /= {}
    /\ \A t \in Opening : o_timer[t] < TimeoutTicks
    /\ o_mutex = NoTask => \A t \in Tasks : o_pc[t] /= "locking"
    /\ o_timer' = [t \in Tasks |-> IF t \in Opening THEN o_timer[t] + 1 ELSE o_timer[t]]
    /\ o_open' = [t \in Tasks |-> IF o_pc[t] = "opening" THEN o_open[t] + 1 ELSE o_open[t]]
    /\ UNCHANGED << o_pc, o_mutex, o_force_closed, o_result, o_calls,
                    servervars, connvars, utilvars >>

\* ------------------------------------------------ run_channel's read loop
\* The ChannelMsg values channel.wait() yields; the bytes of a frame are a
\* sequence.  An exit status is a u32 on the wire, kept as its two 16-bit
\* halves: U32(hi, lo) is hi * 2^16 + lo.
U32(hi, lo) == [hi |-> hi, lo |-> lo]

Data(data) == [type |-> "Data", data |-> data]
ExtendedData(data, ext) == [type |-> "ExtendedData", data |-> data, ext |-> ext]
ExitStatus(exit_status) == [type |-> "ExitStatus", exit_status |-> exit_status]
Eof == [type |-> "Eof"]
Close == [type |-> "Close"]
WindowAdjusted == [type |-> "WindowAdjusted"]

\* u32::cast_signed: the same 32 bits as an i32 (two's complement).
cast_signed(x) == (IF x.hi >= 32768 THEN x.hi - 65536 ELSE x.hi) * 65536 + x.lo

\* Option<i32> for exit_code: None is the empty sequence, Some(x) is << x >>.
NoExitCode == << >>
Some(x) == << x >>

\* read_loop as it would be if the Eof frame ended it.
RECURSIVE read_loop_until_eof(_, _, _, _)
read_loop_until_eof(frames, stdout, stderr, exit_code) ==
    IF Len(frames) = 0 \/ frames[1].type = "Eof"
    THEN [stdout |-> stdout, stderr |-> stderr, exit_code |-> exit_code]
    ELSE LET msg == frames[1]
             rest == Tail(frames)
         IN  CASE msg.type = "Data" ->
                    read_loop_until_eof(rest, stdout \o msg.data, stderr, exit_code)
               [] msg.type = "ExtendedData" ->
                    read_loop_until_eof(rest, stdout,
                              IF msg.ext = 1 THEN stderr \o msg.data ELSE stderr,
                              exit_code)
               [] msg.type = "ExitStatus" ->
                    read_loop_until_eof(rest, stdout, stderr,
                                        Some(cast_signed(msg.exit_status)))
               [] OTHER -> read_loop_until_eof(rest, stdout, stderr, exit_code)

\* The read loop: loop { match channel.wait().await { ... } } over the
\* messages the channel yields until it yields None.
RECURSIVE read_loop(_, _, _, _)
read_loop(frames, stdout, stderr, exit_code) ==
    IF Len(frames) = 0
    THEN [stdout |-> stdout, stderr |-> stderr, exit_code |-> exit_code]
    ELSE LET msg == frames[1]
             rest == Tail(frames)
         IN  CASE msg.type = "Data" ->
                    read_loop(rest, stdout \o msg.data, stderr, exit_code)
               [] msg.type = "ExtendedData" ->
                    read_loop(rest, stdout,
                              IF msg.ext = 1 THEN stderr \o msg.data ELSE stderr,
                              exit_code)
               [] msg.type = "ExitStatus" ->
                    read_loop(rest, stdout, stderr, Some(cast_signed(msg.exit_status)))
               [] OTHER -> read_loop(rest, stdout, stderr, exit_code)

\* Ok(ChannelOutput { stdout, stderr, exit_code: exit_code.unwrap_or(-1) })
ChannelOutput(r) ==
    [ok |-> TRUE, stdout |-> r.stdout, stderr |-> r.stderr,
     exit_code |-> IF r.exit_code = NoExitCode THEN -1 ELSE r.exit_code[1]]

\* run_channel collects the output of a command whose channel yields the
\* input's messages and then ends.
ReadLoop ==
    /\ u_op = "none"
    /\ u_op' = "read_loop"
    /\ u_out' = ChannelOutput(read_loop(u_in, << >>, << >>, NoExitCode))
    /\ UNCHANGED << u_in, u_port, servervars, connvars, openvars >>

\* The command's timeout elapses before the channel ended: the read loop is
\* dropped with what it collected.
ReadLoopTimeout ==
    /\ u_op = "none"
    /\ u_op' = "read_loop"
    /\ u_out' = [ok |-> FALSE, err |-> CommandTimedOut]
    /\ UNCHANGED << u_in, u_port, servervars, connvars, openvars >>

\* ------------------------------------------------------- the POSIX shell
\* How a POSIX shell reads a command line (XCU 2.2 Quoting, 2.3 Token
\* Recognition): between single quotes every character is literal; outside,
\* a backslash quotes the next character, a double quote starts a part in
\* which only $, the backquote and the backslash keep their meaning, blanks
\* separate words, and $, a backquote, & and a leading ~ start an expansion
\* or an operator.  The result: the words read, whether a character other
\* than a quoting character was given a special meaning, and whether the
\* line ended inside a quotation.
RECURSIVE Lex(_, _, _, _, _, _)
Lex(line, mode, cur, started, words, special) ==
    IF Len(line) = 0
    THEN [words |-> IF started THEN Append(words, cur) ELSE words,
          special |-> special,
          unterminated |-> mode /= "plain"]
    ELSE LET c == Head(line)
             rest == Tail(line)
         IN  CASE mode = "single" ->
                    IF c = "'" THEN Lex(rest, "plain", cur, TRUE, words, special)
                    ELSE Lex(rest, "single", Append(cur, c), TRUE, words, special)
               [] mode = "escape" ->
                    Lex(rest, "plain", Append(cur, c), TRUE, words, special)
               [] mode = "double" ->
                    IF c = DoubleQuote THEN Lex(rest, "plain", cur, TRUE, words, special)
                    ELSE IF c = Backslash
                    THEN Lex(rest, "double_escape", cur, TRUE, words, special)
                    ELSE Lex(rest, "double", Append(cur, c), TRUE, words,
                             special \/ c \in {"$", Backtick})
               [] mode = "double_escape" ->
                    IF c \in {"$", Backtick, DoubleQuote, Backslash}
                    THEN Lex(rest, "double", Append(cur, c), TRUE, words, special)
                    ELSE Lex(rest, "double", cur \o << Backslash, c >>, TRUE, words, special)
               [] mode = "plain" ->
                    IF c = "'" THEN Lex(rest, "single", cur, TRUE, words, special)
                    ELSE IF c = Backslash THEN Lex(rest, "escape", cur, TRUE, words, special)
                    ELSE IF c = DoubleQuote THEN Lex(rest, "double", cur, TRUE, words, special)
                    ELSE IF c = " "
                    THEN Lex(rest, "plain", << >>, FALSE,
                             IF started THEN Append(words, cur) ELSE words, special)
                    ELSE Lex(rest, "plain", Append(cur, c), TRUE, words,
                             special \/ c \in {"$", Backtick, "&"} \/ (c = "~" /\ ~started))

ShellRead(line) == Lex(line, "plain", << >>, FALSE, << >>, FALSE)

\* ------------------------------------------------------ specifications
\* maybe_reload_config, step by step.
ReloadStep(t) ==
    \/ RlStat(t)
    \/ RlCheck(t)
    \/ RlLoad(t)
    \/ RlDiff(t)
    \/ RlSwap(t)
    \/ RlMtime(t)
    \/ RlEvict(t)
    \/ RlJoin(t)

\* resolve_connection, the handler and cleanup_if_dead, step by step.
ConnStep(t) ==
    \/ Get1Read(t)
    \/ Get1Closed(t)
    \/ Get1Evict(t)
    \/ CfgLookup(t)
    \/ LockFast(t)
    \/ LockSlow(t)
    \/ LockAcquire(t)
    \/ Get2Read(t)
    \/ Get2Closed(t)
    \/ Get2Evict(t)
    \/ ConnectBegin(t)
    \/ ConnectOk(t)
    \/ ConnectFail(t)
    \/ Insert(t)
    \/ Handler(t)
    \/ CleanupCheck(t)
    \/ CleanupRemove(t)

\* Concurrent with_connection calls on one alias, the sessions dying and the
\* registry file rewritten under them.
Next ==
    \/ \E t \in Tasks : StartCall(t, "with_connection", "prod")
    \/ \E t \in Tasks : ReloadStep(t)
    \/ \E t \in Tasks : ConnStep(t)
    \/ \E t \in Tasks : Return(t)
    \/ \E h \in 1..MaxSessions : TransportDies(h)
    \/ \E reg \in ProdRegs : WriteFile(TRUE, reg, MaxWrites)
    \/ WriteFile(FALSE, RegEmpty, MaxWrites)

Spec == Init /\ [][Next]_vars

\* Concurrent list_servers calls, each reloading a registry file that is
\* rewritten under them.
NextReload ==
    \/ \E t \in Tasks : StartCall(t, "list_servers", "none")
    \/ \E t \in Tasks : ReloadStep(t)
    \/ \E t \in Tasks : ListHandle(t)
    \/ \E t \in Tasks : Return(t)
    \/ \E reg \in ReloadRegs : WriteFile(TRUE, reg, MaxReloadWrites)
    \/ WriteFile(FALSE, RegEmpty, MaxReloadWrites)

SpecReload == Init /\ [][NextReload]_vars

\* One tool call at a time, on any alias, the registry file rewritten to any
\* registry between and during the calls.
NextSolo ==
    \/ \E t \in SoloTasks, name \in Names : StartCall(t, "with_connection", name)
    \/ \E t \in SoloTasks : StartCall(t, "list_servers", "none")
    \/ \E t \in SoloTasks : ReloadStep(t)
    \/ \E t \in SoloTasks : ConnStep(t)
    \/ \E t \in SoloTasks : ListHandle(t)
    \/ \E t \in SoloTasks : Return(t)
    \/ \E h \in 1..MaxSessions : TransportDies(h)
    \/ \E reg \in AllRegs : WriteFile(TRUE, reg, MaxSoloWrites)
    \/ WriteFile(FALSE, RegEmpty, MaxSoloWrites)

SpecSolo == InitAny /\ [][NextSolo]_vars

\* run_channel, step by step.
ExecStep(t) ==
    \/ ChLock(t)
    \/ ChOpen(t)
    \/ ChOpenTimeout(t)
    \/ ChExec(t)
    \/ ChStdin(t)
    \/ ChEof(t)
    \/ ChRead(t)
    \/ ChReadTimeout(t)

\* resolve_connection and cleanup_if_dead around the handler.
ResolveStep(t) ==
    \/ Get1Read(t)
    \/ Get1Closed(t)
    \/ Get1Evict(t)
    \/ CfgLookup(t)
    \/ LockFast(t)
    \/ LockSlow(t)
    \/ LockAcquire(t)
    \/ Get2Read(t)
    \/ Get2Closed(t)
    \/ Get2Evict(t)
    \/ ConnectBegin(t)
    \/ ConnectOk(t)
    \/ ConnectFail(t)
    \/ Insert(t)
    \/ CleanupCheck(t)
    \/ CleanupRemove(t)

\* Concurrent remote_bash and remote_write calls on one alias, their
\* commands followed channel by channel; the registry file stays as it is.
NextExec ==
    \/ \E t \in Tasks, tl \in ExecTools : StartCall(t, tl, "prod")
    \/ \E t \in Tasks : RlStat(t)
    \/ \E t \in Tasks : RlCheck(t)
    \/ \E t \in Tasks : ResolveStep(t)
    \/ \E t \in Tasks : ExecStep(t)
    \/ \E t \in Tasks : Return(t)
    \/ \E h \in 1..MaxSessions : TransportDies(h)

SpecExec == Init /\ [][NextExec]_vars

\* One remote_bash or remote_write call at a time.  The timers of tokio fire
\* when their time has come; nothing makes the peer take the stdin written
\* to it or end the command.
NextExecSolo ==
    \/ \E t \in SoloTasks, tl \in ExecTools : StartCall(t, tl, "prod")
    \/ \E t \in SoloTasks : RlStat(t)
    \/ \E t \in SoloTasks : RlCheck(t)
    \/ \E t \in SoloTasks : ResolveStep(t)
    \/ \E t \in SoloTasks : ExecStep(t)
    \/ \E t \in SoloTasks : Return(t)
    \/ \E h \in 1..MaxSessions : TransportDies(h)

TimersFire ==
    \A t \in SoloTasks : WF_vars(ChOpenTimeout(t)) /\ WF_vars(ChReadTimeout(t))

SpecExecSolo == Init /\ [][NextExecSolo]_vars /\ TimersFire

\* Concurrent remote_write calls on one alias, each of which the caller may
\* drop at any await point.
NextCancel ==
    \/ \E t \in Tasks : StartCall(t, "remote_write", "prod")
    \/ \E t \in Tasks : RlStat(t)
    \/ \E t \in Tasks : RlCheck(t)
    \/ \E t \in Tasks : ResolveStep(t)
    \/ \E t \in Tasks : ExecStep(t)
    \/ \E t \in Tasks : Return(t)
    \/ \E t \in Tasks : Cancel(t)

SpecCancel == Init /\ [][NextCancel]_vars

\* Concurrent with_connection calls on any alias, the sessions dying under
\* them; the registry file stays as it is.
NextPool ==
    \/ \E t \in Tasks, name \in Names : StartCall(t, "with_connection", name)
    \/ \E t \in Tasks : RlStat(t)
    \/ \E t \in Tasks : RlCheck(t)
    \/ \E t \in Tasks : ConnStep(t)
    \/ \E t \in Tasks : Return(t)
    \/ \E h \in 1..MaxSessions : TransportDies(h)

SpecPool == Init /\ [][NextPool]_vars

\* The authentication of one connect, for every auth method, a configured or
\* missing identity file, default key files that are absent, unreadable or
\* good, and an agent that is unreachable, fails to list or holds up to
\* MaxAgentKeys keys.
AuthMethods == {"auto", "agent", "key"}

\* The agent's keys: n keys, all Ed25519 or every other one RSA.
AgentKeyLists ==
    {[i \in 1..n |-> "ed25519"] : n \in 0..MaxAgentKeys}
    \cup {[i \in 1..n |-> IF i % 2 = 1 THEN "rsa" ELSE "ed25519"] : n \in 0..MaxAgentKeys}

Agents ==
    {[state |-> "unreachable", keys |-> << >>], [state |-> "no_list", keys |-> << >>]}
    \cup {[state |-> "ok", keys |-> ks] : ks \in AgentKeyLists}

\* The key files: the identity file (when one is configured) cannot be loaded
\* or holds an Ed25519 or an RSA key; each default key file is absent, cannot
\* be loaded or holds a key of its algorithm.
KeyFileSets(identity) ==
    {[p \in KeyPaths |->
        CASE p = "identity" -> i
          [] p = "id_ed25519" -> e
          [] p = "id_rsa" -> r
          [] p = "id_ecdsa" -> c] :
        i \in (IF identity = NoIdentity THEN {"absent"} ELSE {"malformed", "ed25519", "rsa"}),
        e \in {"absent", "malformed", "ed25519"},
        r \in {"absent", "malformed", "rsa"},
        c \in {"absent", "malformed", "ecdsa"}}

RsaAnswers == {"sha512", "ssh-rsa", "unadvertised", "error"}

InitAuth ==
    /\ ServerInit(RegBase)
    /\ OpenIdle
    /\ UtilIdle
    /\ known_hosts = [readable |-> TRUE, writable |-> TRUE, rec |-> NoKey]
    /\ server_key = NoKey
    /\ \E m \in AuthMethods, id \in {NoIdentity, IdA} :
            /\ cparams = [auth_method |-> m, identity |-> id]
            /\ keyfiles \in KeyFileSets(id)
    /\ agent \in Agents
    /\ server_rsa \in RsaAnswers
    /\ ConnectLocals
    /\ n_connects = 0
    /\ accepted_keys = << >>
    /\ sighted = known_hosts.rec

\* authenticate and the rungs it calls, step by step.
AuthStep ==
    \/ Authenticate
    \/ KeyLoad
    \/ KeyQuery
    \/ KeyAuth
    \/ AgentConnect
    \/ AgentList
    \/ AgentQuery
    \/ AgentAuth

NextAuth ==
    \/ ConnectStart(1)
    \/ KeyExchange({"K1"})
    \/ ConnectNetFail
    \/ CheckServerKey
    \/ AuthStep

SpecAuth == InitAuth /\ [][NextAuth]_vars

\* Connects to one host/port one after another, the server presenting one of
\* two host keys each time, on a known-hosts file that is empty or records a
\* key and whose permissions change; the authentication is by one key file.
InitHostKey ==
    /\ ServerInit(RegBase)
    /\ OpenIdle
    /\ UtilIdle
    /\ \E r \in BOOLEAN, w \in BOOLEAN, k \in {NoKey, "K1"} :
            known_hosts = [readable |-> r, writable |-> w, rec |-> k]
    /\ server_key = NoKey
    /\ cparams = [auth_method |-> "key", identity |-> IdA]
    /\ keyfiles = [p \in KeyPaths |-> IF p = "identity" THEN "ed25519" ELSE "absent"]
    /\ agent = [state |-> "unreachable", keys |-> << >>]
    /\ server_rsa = "unadvertised"
    /\ ConnectLocals
    /\ n_connects = 0
    /\ accepted_keys = << >>
    /\ sighted = known_hosts.rec

NextHostKey ==
    \/ ConnectStart(MaxConnects)
    \/ KeyExchange(HostKeys)
    \/ ConnectNetFail
    \/ CheckServerKey
    \/ Authenticate
    \/ KeyLoad
    \/ KeyQuery
    \/ KeyAuth
    \/ \E r \in BOOLEAN, w \in BOOLEAN : KnownHostsPerm(r, w)

SpecHostKey == InitHostKey /\ [][NextHostKey]_vars

\* parse_connection_string on every string of up to MaxConnLen characters
\* over a letter, the separators and two digits, and on the longer strings of
\* LongConns, with and without a port override.
ConnAlphabet == {"u", "@", ":", "/", "2", "9"}

\* user@host:99999 (a port above 65535), user@host:9999:/u, uu@uu:22:/u/u.
LongConns ==
    {<< "u", "@", "u", ":", "9", "9", "9", "9", "9" >>,
     << "u", "@", "u", ":", "9", "9", "9", "9", ":", "/", "u" >>,
     << "u", "u", "@", "u", "u", ":", "2", "2", ":", "/", "u", "/", "u" >>}

PortOverrides == {NoPort, 3333}

InitParse ==
    /\ ServerInit(RegBase)
    /\ OpenIdle
    /\ ConnIdle
    /\ u_in \in Strings(ConnAlphabet, MaxConnLen) \cup LongConns
    /\ u_port \in PortOverrides
    /\ u_op = "none"
    /\ u_out = NoOutput

NextParse == ParseConnectionString

SpecParse == InitParse /\ [][NextParse]_vars

\* shell_escape, shell_escape_remote_path and run_channel's command on every
\* string of up to MaxPathLen characters over a letter, the quoting
\* characters, the blank, $, ~ and /.
PathAlphabet == {"a", "'", Backslash, DoubleQuote, " ", "$", "~", "/"}

InitEscape ==
    /\ ServerInit(RegBase)
    /\ OpenIdle
    /\ ConnIdle
    /\ u_in \in Strings(PathAlphabet, MaxPathLen)
    /\ u_port = NoPort
    /\ u_op = "none"
    /\ u_out = NoOutput

NextEscape ==
    \/ ShellEscape
    \/ ShellEscapeRemotePath
    \/ RunChannelCommand

SpecEscape == InitEscape /\ [][NextEscape]_vars

\* The read loop on every stream of up to MaxFrames messages: data on stdout,
\* on stderr (extension 1) and on another extension, exit statuses, Eof,
\* Close and a message the loop has no arm for.
Frames ==
    {Data(<< 1 >>), Data(<< 2, 3 >>), ExtendedData(<< 4 >>, 1), ExtendedData(<< 5 >>, 2),
     ExitStatus(U32(0, 0)), ExitStatus(U32(0, 3)), ExitStatus(U32(65535, 65535)),
     Eof, Close, WindowAdjusted}

InitRead ==
    /\ ServerInit(RegBase)
    /\ OpenIdle
    /\ ConnIdle
    /\ u_in \in Strings(Frames, MaxFrames)
    /\ u_port = NoPort
    /\ u_op = "none"
    /\ u_out = NoOutput

NextRead ==
    \/ ReadLoop
    \/ ReadLoopTimeout

SpecRead == InitRead /\ [][NextRead]_vars

\* Concurrent run_channel calls opening channels on one live session, each
\* open completing after any time or not at all.
NextOpen ==
    \/ \E t \in Tasks : OpenStart(t)
    \/ \E t \in Tasks : OpenLock(t)
    \/ \E t \in Tasks : OpenDone(t)
    \/ \E t \in Tasks : OpenTimeout(t)
    \/ Tick

SpecOpen == Init /\ [][NextOpen]_vars

\* Concurrent remote_write and list_servers calls, every step of the
\* dispatcher and of run_channel, the registry file rewritten under them
\* (a reload disconnects the sessions it evicts).  The tokio runtime polls every task that can go on;
\* every Session::connect and every command ends (TaskStep has a step for a
\* task inside them).
TaskStep(t) ==
    \/ ReloadStep(t)
    \/ ResolveStep(t)
    \/ ExecStep(t)
    \/ ListHandle(t)
    \/ Return(t)

NextLive ==
    \/ \E t \in Tasks : calls < MaxLiveCalls /\ StartCall(t, "remote_write", "prod")
    \/ \E t \in Tasks : calls < MaxLiveCalls /\ StartCall(t, "list_servers", "none")
    \/ \E t \in Tasks : TaskStep(t)
    \/ WriteFile(TRUE, RegProdPort, MaxWrites)

Scheduled == \A t \in Tasks : WF_vars(TaskStep(t))

SpecLive == Init /\ [][NextLive]_vars /\ Scheduled

\* ================================================================ claims
\* Positions at which the call holds the connect lock of its server.
UnderConnectLock == {"get2_read", "get2_closed", "get2_evict", "connect", "connecting", "insert"}
\* Positions between the re-check's miss and the insert.
Connecting == {"connect", "connecting", "insert"}
\* Positions at which the call's handler holds, or has held, the resolved session.
Running == {"handler", "cleanup_check", "cleanup_remove"}
\* The first position after maybe_reload_config.
ReloadOver == {"get1_read", "list"}

\* C1: for every alias at most one task is inside Session::connect at any
\* instant; a task is between the re-check and the insert only while holding
\* the alias's connect lock and only while the pool has no entry for the
\* alias (it re-checked and missed, and nobody else can publish); every lock
\* handle a task obtained for an alias is the one mutex of that alias.
C1_OneConnectPerAlias ==
    \A a \in Names :
        /\ Cardinality({t \in Tasks : server[t] = a /\ pc[t] = "connecting"}) <= 1
        /\ \A t \in Tasks :
            /\ (server[t] = a /\ pc[t] \in UnderConnectLock) =>
                    /\ lock[t] /= NoConn
                    /\ lock[t] = connect_locks[a]
                    /\ mutexes[lock[t]] = t
            /\ (server[t] = a /\ pc[t] \in Connecting) => pool[a] = NoConn
            /\ (server[t] = a /\ lock[t] /= NoConn) => lock[t] = connect_locks[a]

\* C1's case: one task is inside Session::connect while another waits for
\* the same connect mutex.
C1_Witness ==
    \E t, u \in Tasks :
        /\ t /= u
        /\ pc[t] = "connecting"
        /\ pc[u] = "lock_wait"
        /\ server[u] = server[t]
        /\ lock[u] = lock[t]

\* Nothing went wrong so far: no connect failed, no session is closed and the
\* registry file was not rewritten.
NoFaults ==
    /\ connect_failures = 0
    /\ file.mtime = 0
    /\ \A h \in Handles : ~Dead(h)

\* C2: while no connect fails, no session closes and the registry file does
\* not change, Session::connect is invoked at most once per alias, exactly
\* once as soon as a handler runs, and every handler of the alias runs on the
\* one session that is pooled.
C2_ConnectOnce ==
    NoFaults =>
        \A a \in Names :
            /\ connects[a] <= 1
            /\ Cardinality({h \in Handles : sessions[h].alias = a}) <= 1
            /\ \A t \in Tasks :
                (server[t] = a /\ pc[t] \in Running) =>
                    /\ connects[a] = 1
                    /\ conn[t] = pool[a]
                    /\ conn[t] /= NoConn

\* C2's case: two calls of one alias run their handlers on the same session
\* at the same time, after a single connect.
C2_Witness ==
    /\ NoFaults
    /\ \E t, u \in Tasks :
        /\ t /= u
        /\ pc[t] = "handler"
        /\ pc[u] = "handler"
        /\ server[t] = server[u]
        /\ conn[t] = conn[u]
        /\ connects[server[t]] = 1

\* The handle is pooled or in the hands of an in-flight call.
Held(h) ==
    \/ \E a \in Names : pool[a] = h
    \/ \E t \in Tasks : conn[t] = h /\ pc[t] \in Running \cup {"insert"}

\* C3: two live (not closed) sessions of one alias never coexist, pooled or
\* held by an in-flight call.
C3_OneLiveSession ==
    \A g, h \in Handles :
        (g /= h /\ sessions[g].alias = sessions[h].alias /\ Held(g) /\ Held(h))
            => (Dead(g) \/ Dead(h))

\* The handle whose closing the task observed, at an eviction.
ObservedClosed(t) == IF pc[t] = "cleanup_remove" THEN conn[t] ELSE observed[t]

\* C4: every dead-session eviction is identity-guarded: an evicting step of a
\* task (in pool.get or in the post-call cleanup) that finds another handle
\* than the one it observed closed pooled under its alias leaves that handle
\* pooled.
C4_EvictionIdentityGuarded ==
    [][\A t \in Tasks :
        ( /\ pc[t] \in {"get1_evict", "get2_evict", "cleanup_remove"}
          /\ pc'[t] /= pc[t]
          /\ pool[server[t]] /= NoConn
          /\ pool[server[t]] /= ObservedClosed(t) )
        => pool'[server[t]] = pool[server[t]]]_vars

\* C5: when the post-call check of a call saw its session closed, the pool
\* does not map the call's alias to that session when the call returns.
C5_ClosedNotPooledAtReturn ==
    \A t \in Tasks :
        (pc[t] = "done" /\ cleaned[t]) => pool[server[t]] /= conn[t]

\* C5's case: a call is about to return after its post-call check saw the
\* session closed.
C5_Witness ==
    \E t \in Tasks : pc[t] = "done" /\ cleaned[t] /\ conn[t] /= NoConn

\* C6, states: a call never runs its handler on a session of its alias that
\* was already closed when the call started.
C6_NoDeadReuse ==
    \A t \in Tasks : pc[t] \in Running => conn[t] \notin closed_at_start[t]

\* C6, steps: a handler that runs while the transport is dead replies with
\* the error, and the call returns its handler's reply unchanged.
C6_HandlerError ==
    \A t \in Tasks :
        /\ (pc[t] = "handler" /\ pc'[t] /= "handler" /\ ~sessions[conn[t]].alive)
                => result'[t] = "err"
        /\ (pc[t] \in {"cleanup_check", "cleanup_remove"}) => result'[t] = result[t]

SameConnection(e1, e2) == \A f \in ConnFields : e1[f] = e2[f]

\* C7: when a tool call, whichever alias or tool it is, has finished its
\* reload with no other call in flight: if the file is still at the version
\* the call saw and parses, the in-memory registry is the file's and the
\* bookmark its mtime; and every alias that had a pooled session when the
\* call started still has that handle pooled if and only if it is in the
\* registry now with the six connection fields of its old entry.
C7_ReloadKeepsUnchanged ==
    \A t \in Tasks :
        (snap.task = t /\ pc[t] \in ReloadOver) =>
            /\ (file.ok /\ file.mtime = current_mtime[t]) =>
                    (config = file.reg /\ config_mtime = file.mtime)
            /\ \A a \in Names :
                snap.pool[a] /= NoConn =>
                    ( pool[a] = snap.pool[a]
                      <=> ( /\ a \in DOMAIN config
                            /\ a \in DOMAIN snap.config
                            /\ SameConnection(snap.config[a], config[a]) ) )

\* C7's case: a call on prod has reloaded a changed registry; staging's
\* session is gone from the pool and prod's is still pooled.
C7_Witness ==
    \E t \in Tasks :
        /\ snap.task = t
        /\ pc[t] = "get1_read"
        /\ server[t] = "prod"
        /\ config /= snap.config
        /\ snap.pool["staging"] /= NoConn
        /\ pool["staging"] = NoConn
        /\ snap.pool["prod"] /= NoConn
        /\ pool["prod"] = snap.pool["prod"]

\* C8: a bookmark equal to the file's current mtime is never read while the
\* in-memory registry holds an older content of the file.
C8_BookmarkNotNewer ==
    (file.ok /\ config_mtime = file.mtime) => config = file.reg

\* The aliases of old that are absent from new or differ from new in one of
\* the six connection fields.
ChangedOrRemoved(old, new) ==
    {a \in DOMAIN old : a \notin DOMAIN new \/ \E f \in ConnFields : old[a][f] /= new[a][f]}

\* C9: the eviction set a reload computes is exactly the aliases of the old
\* registry that are absent from the new one or differ in host, user, port,
\* remote_path, identity or auth, so that registries differing only in
\* metadata give the empty set; and the pooled aliases the reload has
\* removed when it is over are exactly the pooled aliases of that set.
C9_EvictionSetExact ==
    \A t \in Tasks :
        /\ pc[t] = "rl_swap" =>
            /\ servers_to_evict[t] = ChangedOrRemoved(config, new_config[t])
            /\ ( /\ DOMAIN config = DOMAIN new_config[t]
                 /\ \A a \in DOMAIN config :
                        [config[a] EXCEPT !.metadata = "none"]
                            = [new_config[t][a] EXCEPT !.metadata = "none"] )
                    => servers_to_evict[t] = {}
        /\ (snap.task = t /\ pc[t] \in ReloadOver) =>
            {a \in Names : snap.pool[a] /= NoConn /\ pool[a] /= snap.pool[a]}
                = {a \in ChangedOrRemoved(snap.config, config) : snap.pool[a] /= NoConn}

\* C9's case: a reload has diffed a new registry in which one alias changed a
\* connection field (or went) and another changed its metadata only.
C9_Witness ==
    \E t \in Tasks :
        /\ pc[t] = "rl_swap"
        /\ servers_to_evict[t] /= {}
        /\ \E a \in (DOMAIN config \cap DOMAIN new_config[t]) \ servers_to_evict[t] :
                config[a].metadata /= new_config[t][a].metadata

\* C10, steps: a reload whose load fails ends there, with the registry, the
\* pool, the sessions and the bookmark as they were.
C10_FailedLoadStep ==
    \A t \in Tasks :
        (pc[t] = "rl_load" /\ pc'[t] /= "rl_load" /\ ~file.ok) =>
            /\ pc'[t] = AfterReload(t)
            /\ config' = config
            /\ pool' = pool
            /\ sessions' = sessions
            /\ config_mtime' = config_mtime

\* C10, states: when a call that ran with no other call in flight is past
\* its reload and the file is still the unparseable version it saw, the
\* registry and the pool are those of the call's start and the bookmark is
\* not the file's mtime, so the next call tries the reload again.
C10_FailedLoadKeepsAll ==
    \A t \in Tasks :
        (snap.task = t /\ pc[t] \in ReloadOver /\ ~file.ok /\ file.mtime = current_mtime[t]) =>
            /\ config = snap.config
            /\ pool = snap.pool
            /\ config_mtime /= file.mtime

\* C10: a registry file that changed but does not parse leaves the
\* in-memory registry and the pool unchanged, the call goes on with the old
\* registry, and the bookmark is not advanced.
C10_ParseErrorKeepsConfig == []C10_FailedLoadKeepsAll /\ [][C10_FailedLoadStep]_vars

\* C10's case: a call is past a reload that failed to parse the file while
\* prod's session stays pooled.
C10_Witness ==
    \E t \in Tasks :
        /\ snap.task = t
        /\ pc[t] = "get1_read"
        /\ ~file.ok
        /\ file.mtime = current_mtime[t]
        /\ pool["prod"] /= NoConn

\* Positions after the handler has replied.
AfterHandler == {"cleanup_check", "cleanup_remove"}

\* C11, steps: the handler's step leads to the post-call check; from there
\* the call only goes on to the removal and to its return, with the reply,
\* its session handle, the sessions and the connect count as they were: it
\* never goes back to resolve, connect or run the handler again.
C11_NoRetryStep ==
    \A t \in Tasks :
        /\ (pc[t] = "handler" /\ pc'[t] /= pc[t]) => pc'[t] = "cleanup_check"
        /\ (pc[t] \in AfterHandler /\ pc'[t] /= pc[t]) =>
                /\ pc'[t] \in {"cleanup_remove", "done"}
                /\ result'[t] = result[t]
                /\ conn'[t] = conn[t]
                /\ connects' = connects
                /\ sessions' = sessions
        /\ (pc[t] = "done" /\ pc'[t] /= pc[t]) => pc'[t] = "idle"

\* C11, states: a call that is about to return after it found its session
\* closed returns a reply of its handler.
C11_ReplyKept ==
    \A t \in Tasks :
        (pc[t] = "done" /\ cleaned[t]) => (result[t] \in {"ok", "err"} /\ conn[t] /= NoConn)

\* C11: with_connection never retries: the handler runs once, its reply is
\* what the call returns even when the session is found closed afterwards,
\* and the call neither reconnects nor runs the handler again.
C11_NeverRetries == []C11_ReplyKept /\ [][C11_NoRetryStep]_vars

\* C11's case: a call returns its handler's error after its post-call check
\* found the session closed and removed it from the pool.
C11_Witness ==
    \E t \in Tasks :
        /\ pc[t] = "done"
        /\ cleaned[t]
        /\ result[t] = "err"
        /\ pool[server[t]] = NoConn

\* The add-server hint for an alias, and the listing of the one other alias.
HintFor(a) ==
    "Error: server '" \o a \o "' not found. No servers are configured. Add servers via 'ssh-hub add <name> <connection>'."
ListingFor(a, b) ==
    "Error: server '" \o a \o "' not found. Configured servers: " \o b \o "."

\* The not-found reply expected for alias a under registry cfg, when a is
\* not in cfg: the hint on an empty registry, else the configured aliases.
ExpectedNotFound(a, cfg) ==
    IF DOMAIN cfg = {} THEN {HintFor(a)}
    ELSE IF DOMAIN cfg = {"staging"} THEN {ListingFor(a, "staging")}
    ELSE IF DOMAIN cfg = {"prod"} THEN {ListingFor(a, "prod")}
    ELSE {ListingFor(a, "prod, staging"), ListingFor(a, "staging, prod")}

AllNotFound == UNION {ExpectedNotFound(a, cfg) : a \in Names, cfg \in {RegEmpty, RegNoProd, RegBase}}
                \cup {ListingFor(a, "prod") : a \in Names}

\* C12, steps: the registry lookup of an alias that is not configured ends
\* the call with the dispatcher's error (the hint, or the aliases listed) and
\* leaves the pool, the lock table, the mutexes, the sessions and the connect
\* count as they were.
C12_NotFoundStep ==
    \A t \in Tasks :
        (pc[t] = "cfg_lookup" /\ pc'[t] /= pc[t] /\ server[t] \notin DOMAIN config) =>
            /\ pc'[t] = "done"
            /\ result'[t] \in ExpectedNotFound(server[t], config)
            /\ pool' = pool
            /\ connect_locks' = connect_locks
            /\ mutexes' = mutexes
            /\ sessions' = sessions
            /\ connects' = connects

\* C12, states: a call that ends with the not-found error has resolved no
\* session, holds no connect lock handle and built no connection parameters:
\* it passed neither the handler nor the connect.
C12_NotFoundNothingDone ==
    \A t \in Tasks :
        (pc[t] = "done" /\ result[t] \in AllNotFound) =>
            /\ conn[t] = NoConn
            /\ lock[t] = NoConn
            /\ params[t] = NoParams
            /\ ~cleaned[t]
            /\ pool[server[t]] = NoConn \/ \E u \in Tasks \ {t} : pc[u] /= "idle"

\* C12: with_connection on an alias that is neither pooled nor configured
\* returns the dispatcher's error without running the handler, connecting,
\* creating a connect lock or changing the pool.
C12_NotFound == []C12_NotFoundNothingDone /\ [][C12_NotFoundStep]_vars

\* C12's case: a call on an alias that is not configured ended with the
\* listing of the configured aliases while no lock exists for the alias.
C12_Witness ==
    \E t \in Tasks :
        /\ pc[t] = "done"
        /\ result[t] = ListingFor(server[t], "staging")
        /\ server[t] = "prod"
        /\ connect_locks["prod"] = NoConn

\* The auto-connect-failed replies for an alias.
ConnectFailedFor(a) ==
    {"Error: server '" \o a \o "' is configured but auto-connect failed: Failed to connect to SSH server",
     "Error: server '" \o a \o "' is configured but auto-connect failed: Key authentication failed"}

\* C13, steps: a failed Session::connect ends the call with the
\* auto-connect-failed error, leaves the pool without an entry for the alias
\* and the connect mutex free; and a call that reaches the connect always
\* enters Session::connect, whatever failed before.
C13_ConnectFailStep ==
    \A t \in Tasks :
        /\ (pc[t] = "connecting" /\ pc'[t] = "done") =>
                /\ result'[t] \in ConnectFailedFor(server[t])
                /\ pool' = pool
                /\ pool[server[t]] = NoConn
                /\ sessions' = sessions
                /\ connect_locks' = connect_locks
                /\ mutexes'[lock[t]] = NoTask
                /\ lock'[t] = NoConn
        /\ (pc[t] = "connect" /\ pc'[t] /= pc[t]) =>
                /\ pc'[t] = "connecting"
                /\ connects'[server[t]] = connects[server[t]] + 1

\* C13, states: a call that ends with the auto-connect-failed error ran no
\* handler (it has no session) and holds no connect lock.
C13_ConnectFailNoHandler ==
    \A t \in Tasks :
        (pc[t] = "done" /\ result[t] \in UNION {ConnectFailedFor(a) : a \in Names}) =>
            /\ conn[t] = NoConn
            /\ lock[t] = NoConn
            /\ ~cleaned[t]
            /\ \A m \in DOMAIN mutexes : mutexes[m] /= t

\* C13: a failed auto-connect returns the auto-connect-failed error without
\* running the handler, leaves no pool entry and no held connect lock, and
\* caches nothing: the next call that gets to connect calls Session::connect.
C13_ConnectFailure == []C13_ConnectFailNoHandler /\ [][C13_ConnectFailStep]_vars

\* C13's case: after a failed connect for the alias, another call is inside
\* Session::connect for it.
C13_Witness ==
    \E t \in Tasks :
        /\ pc[t] = "connecting"
        /\ connect_failures >= 1
        /\ connects[server[t]] >= 2
        /\ \A u \in Tasks \ {t} : pc[u] = "idle"

\* Positions inside run_channel, from the wait for the session mutex on.
OpeningChannel == {"handler", "ch_opening"}
ChannelIO == {"ch_exec", "ch_stdin", "ch_eof", "ch_read"}

\* C14, steps: a handler that returns before its channel was opened returns
\* the channel-open error; when that is the timeout, the session is marked
\* closed and its mutex is not left with the task.  pool.get on a handle
\* marked closed goes to the eviction, removes the handle when it is still
\* the pooled one and reports a miss, which leads to the connect.
C14_OpenTimeoutStep ==
    \A t \in Tasks :
        /\ (pc[t] \in OpeningChannel /\ pc'[t] = "cleanup_check") =>
                /\ result'[t] \in {"Timed out opening SSH channel (10s)", "Failed to open channel"}
                /\ pc[t] = "handler" => result'[t] = "Timed out opening SSH channel (10s)"
                /\ result'[t] = "Timed out opening SSH channel (10s)" =>
                        /\ sessions'[conn[t]].force_closed
                        /\ sessions'[conn[t]].mutex /= t
        /\ (pc[t] \in {"get1_closed", "get2_closed"} /\ pc'[t] /= pc[t]
                /\ sessions[observed[t]].force_closed) =>
                /\ pc'[t] \in {"get1_evict", "get2_evict"}
                /\ conn'[t] = NoConn
        /\ (pc[t] \in {"get1_evict", "get2_evict"} /\ pc'[t] /= pc[t]
                /\ pool[server[t]] = observed[t]) =>
                /\ pool'[server[t]] = NoConn
                /\ pc'[t] \in {"cfg_lookup", "connect"}
                /\ conn'[t] = NoConn

\* C14, states: no command runs on a session that was closed when its call
\* started.
C14_NoMarkedReuse ==
    \A t \in Tasks :
        pc[t] \in OpeningChannel \cup ChannelIO => conn[t] \notin closed_at_start[t]

\* C14, progress: a call does not wait for its channel forever.
C14_OpenBounded ==
    \A t \in SoloTasks : (pc[t] \in OpeningChannel) ~> (pc[t] \notin OpeningChannel)

C15_CommandTimeoutStep ==
    \A t \in Tasks :
        /\ (pc[t] = "ch_read" /\ pc'[t] /= pc[t] /\ result'[t] = "Command timed out") =>
                /\ sessions' = sessions
                /\ pool' = pool
                /\ pc'[t] = "cleanup_check"
        /\ (pc[t] = "cleanup_check" /\ pc'[t] /= pc[t] /\ ~Dead(conn[t])) =>
                /\ pc'[t] = "done"
                /\ pool' = pool
                /\ ~cleaned'[t]

\* C15, states: a session is marked force-closed only by a channel-open
\* timeout, which some call of the run returned or is returning; and a call
\* that returns the command timeout found its session closed only if the
\* session is closed for another reason.
C15_TimeoutKeepsSession ==
    \A t \in Tasks :
        (pc[t] \in {"cleanup_check", "cleanup_remove", "done"} /\ result[t] = "Command timed out") =>
            /\ conn[t] /= NoConn
            /\ cleaned[t] => Dead(conn[t])
            /\ (sessions[conn[t]].alive /\ ~sessions[conn[t]].force_closed /\ pc[t] = "done") =>
                    ~cleaned[t]

\* C15: the command timeout returns the command-timeout error and leaves
\* the session usable: not marked closed, not evicted by the post-call
\* cleanup while its transport is alive.
C15_CommandTimeout == []C15_TimeoutKeepsSession /\ [][C15_CommandTimeoutStep]_vars

\* C15's case: a call returns the command timeout, its session still pooled
\* and open, while another call has opened a new channel on that session.
C15_Witness ==
    \E t, u \in Tasks :
        /\ t /= u
        /\ pc[t] = "done"
        /\ result[t] = "Command timed out"
        /\ ~cleaned[t]
        /\ pool[server[t]] = conn[t]
        /\ ~Dead(conn[t])
        /\ pc[u] = "ch_opening"
        /\ conn[u] = conn[t]

\* The call is writing its stdin on a session whose transport is up.
WritingStdin(t) == pc[t] \in {"ch_stdin", "ch_eof"} /\ sessions[conn[t]].alive

\* C16: a call with a per-call timeout that is writing its stdin on a live
\* session leaves the stdin write (with the command-timeout error, when the
\* write does not complete): the timeout bounds the stdin write.
C16_StdinWriteBounded ==
    \A t \in SoloTasks : WritingStdin(t) ~> ~WritingStdin(t)

\* C17: within one session at most one task is opening a channel; the
\* session mutex is held by exactly the task that is opening a channel and
\* by no task that is in its command I/O; and two calls in the read loop of
\* one session can each complete first.
C17_OpenSerialized ==
    /\ \A h \in Handles :
        /\ Cardinality({t \in Tasks : pc[t] = "ch_opening" /\ conn[t] = h}) <= 1
        /\ sessions[h].mutex /= NoTask =>
                (pc[sessions[h].mutex] = "ch_opening" /\ conn[sessions[h].mutex] = h)
    /\ \A t \in Tasks :
        /\ pc[t] = "ch_opening" => sessions[conn[t]].mutex = t
        /\ pc[t] \in ChannelIO => sessions[conn[t]].mutex /= t
    /\ \A t, u \in Tasks :
        (t /= u /\ pc[t] = "ch_read" /\ pc[u] = "ch_read" /\ conn[t] = conn[u]) =>
            (ENABLED ChRead(t) /\ ENABLED ChRead(u))

\* C17's case: one call is in its read loop and another is writing its stdin
\* on the same session, while the session mutex is free.
C17_Witness ==
    \E t, u \in Tasks :
        /\ t /= u
        /\ pc[t] = "ch_read"
        /\ pc[u] = "ch_stdin"
        /\ conn[t] = conn[u]
        /\ sessions[conn[t]].mutex = NoTask

\* C18, states: every connect mutex that is held is held by a call that is
\* under the connect lock with that mutex, and every session mutex by a call
\* that is opening a channel on that session: a dropped call leaves no lock
\* behind.  Every pool entry is a session of its alias, connected with the
\* alias's parameters.
C18_NoLockLeft ==
    /\ \A m \in DOMAIN mutexes :
        mutexes[m] /= NoTask =>
            (pc[mutexes[m]] \in UnderConnectLock /\ lock[mutexes[m]] = m)
    /\ \A h \in Handles :
        sessions[h].mutex /= NoTask =>
            (pc[sessions[h].mutex] = "ch_opening" /\ conn[sessions[h].mutex] = h)
    /\ \A a \in Names :
        pool[a] /= NoConn =>
            /\ pool[a] \in Handles
            /\ sessions[pool[a]].alias = a
            /\ sessions[pool[a]].params = params_from_config(a, config[a])
            /\ \A t \in Tasks : pc[t] = "insert" => conn[t] /= pool[a]

\* C18, steps: dropping a call changes neither the pool nor the lock table
\* and leaves no mutex with the dropped call.
C18_CancelStep ==
    \A t \in Tasks :
        (pc[t] \notin {"idle", "done"} /\ pc'[t] = "idle") =>
            /\ pool' = pool
            /\ connect_locks' = connect_locks
            /\ \A m \in DOMAIN mutexes' : mutexes'[m] /= t
            /\ \A h \in Handles : sessions'[h].mutex /= t

\* C18: a with_connection call cancelled at any await point, the middle of
\* Session::connect included, releases its locks and leaves the pool with
\* complete entries only, so that later calls take the connect lock and
\* connect.
C18_CancelSafe == []C18_NoLockLeft /\ [][C18_CancelStep]_vars

\* C18's case: a call runs its handler on the one session that exists, which
\* the second Session::connect for the alias returned: the first was dropped
\* in the middle (it neither failed nor returned a session).
C18_Witness ==
    \E t \in Tasks :
        /\ pc[t] = "handler"
        /\ connects[server[t]] = 2
        /\ connect_failures = 0
        /\ Len(sessions) = 1
        /\ pool[server[t]] = conn[t]
        /\ \A u \in Tasks \ {t} : pc[u] = "idle"

\* The handles whose pool.insert under alias a has returned: the sessions of
\* a but the one a task has connected and not yet inserted.
InsertedUnder(a) ==
    {h \in Handles : sessions[h].alias = a /\ \A t \in Tasks : ~(pc[t] = "insert" /\ conn[t] = h)}

\* The handle inserted last under a (handles are numbered as they are
\* connected, and the connects of one alias are inserted in that order).
LastInserted(a) ==
    IF InsertedUnder(a) = {} THEN NoConn
    ELSE CHOOSE h \in InsertedUnder(a) : \A g \in InsertedUnder(a) : g <= h

\* C19, steps: pool.insert has written the map when it returns; the lookup
\* of pool.get yields the handle inserted last under the alias or nothing,
\* never a handle inserted before it; and what get returns is what that
\* lookup read.
C19_PoolStep ==
    \A t \in Tasks :
        /\ (pc[t] = "insert" /\ pc'[t] /= pc[t]) =>
                /\ pool'[server[t]] = conn[t]
                /\ LastInserted(server[t])' = conn[t]
        /\ (pc[t] \in {"get1_read", "get2_read"} /\ pc'[t] /= pc[t]) =>
                /\ observed'[t] \in {NoConn, LastInserted(server[t])}
                /\ observed'[t] = NoConn => pool[server[t]] = NoConn
        /\ (pc[t] \in {"get1_closed", "get2_closed"} /\ pc'[t] = "handler") =>
                conn'[t] = observed[t]

\* C19, states: the pool maps an alias to the handle inserted last under it
\* or to nothing, and a get past its lookup holds a handle inserted under
\* its alias.
C19_PoolLatest ==
    /\ \A a \in Names : pool[a] \in {NoConn, LastInserted(a)}
    /\ \A t \in Tasks :
        (pc[t] \in {"get1_closed", "get2_closed", "get1_evict", "get2_evict"}) =>
            observed[t] \in InsertedUnder(server[t])

\* C19: pool operations are linearizable: a get that starts after
\* insert(N, S) returned yields S or a handle inserted later, or none when
\* the entry was removed; never a handle inserted under N before S.
C19_Linearizable == []C19_PoolLatest /\ [][C19_PoolStep]_vars

\* C19's case: a get has read the second session inserted under its alias,
\* the replacement of the first.
C19_Witness ==
    \E t \in Tasks :
        /\ pc[t] \in {"get1_closed", "get2_closed"}
        /\ observed[t] = 2
        /\ LastInserted(server[t]) = 2
        /\ sessions[1].alias = server[t]

\* The other calls whose handler holds the handle.
HoldersOf(h, t) == {u \in Tasks \ {t} : conn[u] = h /\ pc[u] \in Running}

\* C20: a step of an eviction (the stale eviction of pool.get, the post-call
\* cleanup, the removal and the disconnect of the hot-reload) leaves every
\* session that another call's handler holds as it was: the eviction drops
\* the pool's reference only.
C20_EvictionKeepsSession ==
    [][\A t \in Tasks :
        (pc[t] \in {"get1_evict", "get2_evict", "cleanup_remove", "rl_evict", "rl_join"}
            /\ pc'[t] /= pc[t])
        => \A h \in Handles : HoldersOf(h, t) /= {} => sessions'[h] = sessions[h]]_vars

\* ------------------------------------------------------------------ C21
\* s is t or an initial part of t.
IsPrefix(s, t) == Len(s) <= Len(t) /\ \A i \in 1..Len(s) : s[i] = t[i]

\* The elements of a sequence.
Range(s) == {s[i] : i \in 1..Len(s)}

\* The key file holds a key load_secret_key can read.
Loadable(p) == keyfiles[p] \notin {"absent", "malformed"}

\* The credentials offered so far, as << source, position in the agent >>.
AttemptKeys == [i \in 1..Len(attempts) |-> << attempts[i].src, attempts[i].idx >>]

\* The auto ladder for the connect's inputs: the identity file when one is
\* configured and loads, the agent's keys in its order (its first
\* MAX_AGENT_KEYS), the default key files that exist and load, in their order.
Ladder ==
    (IF cparams.identity /= NoIdentity /\ Loadable("identity")
     THEN << << "identity", 0 >> >> ELSE << >>)
    \o (IF agent.state = "ok"
        THEN [i \in 1..TryCount(Len(agent.keys)) |-> << "agent", i >>] ELSE << >>)
    \o SelectSeq([k \in 1..Len(DefaultKeys) |-> << DefaultKeys[k], 0 >>],
                 LAMBDA r : Loadable(r[1]))

\* The authentication is over and failed.
AuthFailed == cpc = "done" /\ cresult /= ConnectOkResult /\ cresult[1] /= ConnectContext

\* With method auto the credentials offered are an initial part of the ladder.
C21_InLadderOrder == cparams.auth_method = "auto" => IsPrefix(AttemptKeys, Ladder)

\* With method auto a failed authentication has offered the whole ladder: every
\* rung that failed was followed by the next.
C21_FailureTriedAll ==
    (cparams.auth_method = "auto" /\ AuthFailed) => AttemptKeys = Ladder

\* At most one attempt is accepted, and it ends the authentication with success.
C21_AcceptEnds ==
    /\ accepts <= 1
    /\ accepts = 1 => (cpc = "done" /\ cresult = ConnectOkResult)

\* No credential is offered once one was accepted.
C21_NoAttemptAfterAccept == accepts >= 1 => attempts' = attempts

\* C21: with auth method auto the credentials are offered in the order identity
\* file (when configured), the agent's keys in agent order, the existing
\* default key files id_ed25519, id_rsa, id_ecdsa; a rung that fails (rejected,
\* error, key file not loadable) is followed by the next rung, and nothing is
\* offered after the first accepted credential.
C21_AutoLadder ==
    /\ [](C21_InLadderOrder /\ C21_FailureTriedAll /\ C21_AcceptEnds)
    /\ [][C21_NoAttemptAfterAccept]_vars

\* The whole ladder was offered and failed: the identity file, at least two
\* agent keys and at least two default keys.
C21_Witness ==
    /\ cparams.auth_method = "auto"
    /\ AuthFailed
    /\ AttemptKeys = Ladder
    /\ << "identity", 0 >> \in Range(AttemptKeys)
    /\ << "agent", 2 >> \in Range(AttemptKeys)
    /\ << "id_rsa", 0 >> \in Range(AttemptKeys)
    /\ << "id_ecdsa", 0 >> \in Range(AttemptKeys)
    /\ keyfiles["id_ed25519"] = "malformed"

\* ------------------------------------------------------------------ C22
\* The attempts made with keys of the agent.
AgentAttempts == SelectSeq(attempts, LAMBDA a : a.src = "agent")

\* No agent key after the MAX_AGENT_KEYS-th is offered.
C22_OnlyFirstTen ==
    /\ Len(AgentAttempts) <= MAX_AGENT_KEYS
    /\ \A i \in 1..Len(AgentAttempts) : AgentAttempts[i].idx = i

\* After the MAX_AGENT_KEYS-th key was not accepted the agent rung is over:
\* with method agent the authentication fails, with method auto the ladder
\* goes on to the default keys.
C22_TenthEndsRung ==
    (cpc = "agent_auth" /\ agent_i = MAX_AGENT_KEYS /\ cpc' /= "done")
        => /\ cparams.auth_method = "auto"
           /\ cpc' = "key_load"
           /\ methods_tried' = Append(methods_tried, "agent")

\* C22: agent authentication offers at most the first 10 keys of the agent:
\* with more than 10 keys in the agent the 11th is never offered and the agent
\* rung fails after the 10th rejection.
C22_AgentKeyLimit == []C22_OnlyFirstTen /\ [][C22_TenthEndsRung]_vars

\* An agent with more than 10 keys, 10 of them offered and rejected, and the
\* agent rung over.
C22_Witness ==
    /\ Len(agent.keys) > MAX_AGENT_KEYS
    /\ Len(AgentAttempts) = MAX_AGENT_KEYS
    /\ accepts = 0
    /\ cpc = "done"
    /\ cparams.auth_method = "agent"
    /\ cresult = << AgentNoneAccepted(Len(agent.keys), MAX_AGENT_KEYS) >>

\* ------------------------------------------------------------------ C23
\* Method agent: no key file is loaded and every attempt is with an agent key.
C23_AgentOnly ==
    cparams.auth_method = "agent"
        => loads = << >> /\ \A i \in 1..Len(attempts) : attempts[i].src = "agent"

\* Method key: the agent is not contacted, and only the identity file is
\* loaded and offered.
C23_KeyOnly ==
    cparams.auth_method = "key"
        => /\ agent_contacts = 0
           /\ Range(loads) \subseteq {"identity"}
           /\ \A i \in 1..Len(attempts) : attempts[i].src = "identity"

\* Method key without an identity: nothing is loaded, asked or offered, and
\* the authentication fails as soon as it starts.
C23_KeyNeedsIdentity ==
    (cparams.auth_method = "key" /\ cparams.identity = NoIdentity)
        => /\ attempts = << >> /\ loads = << >> /\ agent_contacts = 0 /\ rsa_queries = 0
           /\ cpc \in {"idle", "tcp", "handshake", "authenticate", "done"}
           /\ cpc = "done" => cresult \in {<< NoIdentityError >>, << ConnectContext >>}

\* C23: method agent offers only agent keys, method key only the configured
\* identity file (no agent, no default keys), and method key without an
\* identity fails at once without an authentication attempt.
C23_SingleRung == C23_AgentOnly /\ C23_KeyOnly /\ C23_KeyNeedsIdentity

\* Method key without an identity has failed.
C23_Witness ==
    /\ cparams.auth_method = "key"
    /\ cparams.identity = NoIdentity
    /\ cpc = "done"
    /\ cresult = << NoIdentityError >>
    /\ agent.state = "ok" /\ Len(agent.keys) > 0
    /\ Loadable("id_ed25519")

\* ------------------------------------------------------------------ C24
\* The ladder attempted the method: it called try_key_auth on the identity
\* file, it called try_agent_auth, it called try_key_auth on a default key.
Attempted(method) ==
    CASE method = "identity file" -> "identity" \in Range(loads)
      [] method = "agent" -> agent_contacts > 0
      [] method = "default keys" -> Range(loads) \cap Range(DefaultKeys) /= {}

\* C24: when the auto ladder ends without success, the failure lists exactly
\* the methods the ladder attempted, in ladder order.
C24_TriedIffAttempted ==
    (cparams.auth_method = "auto" /\ AuthFailed)
        => /\ methods_tried = SelectSeq(<< "identity file", "agent", "default keys" >>, Attempted)
           /\ cresult = << AuthenticationFailed(methods_tried) >>

\* ------------------------------------------------------------------ C25
\* C25: in the authentication of one session the server's RSA hash is queried
\* at most once, only ahead of an attempt with an RSA key; RSA keys are offered
\* with the queried hash (SHA-256 when none is advertised), other keys with no
\* hash hint.
C25_RsaHashQueriedOnce ==
    /\ rsa_queries <= 1
    /\ cpc = "key_auth" => keyfiles[rung] = "rsa"
    /\ cpc = "agent_auth" => "rsa" \in Range(agent.keys)
    /\ \A i \in 1..Len(attempts) :
            attempts[i].hash = IF attempts[i].alg = "rsa"
                               THEN query_rsa_hash(server_rsa) ELSE "None"

\* ------------------------------------------------------------------ C26
\* The connect failed with the host-key-changed error.
HostKeyRejected == cpc = "done" /\ cresult = << ConnectContext, HostKeyChanged >>

\* The host-key check of this step ends the connect with the host-key-changed
\* error, accepting and recording nothing.
RejectsHostKey ==
    /\ cpc' = "done"
    /\ cresult' = << ConnectContext, HostKeyChanged >>
    /\ accepted_keys' = accepted_keys
    /\ known_hosts' = known_hosts

\* C26: a host-key mismatch is always fatal: whenever the known-hosts file
\* records another key for the host/port, the connect fails with the
\* host-key-changed error and the key is not accepted.
C26_MismatchAlwaysFatal ==
    [][(cpc = "handshake" /\ cpc' /= "handshake"
            /\ known_hosts.rec \notin {NoKey, server_key}) => RejectsHostKey]_vars

\* The check of a key other than the one a readable file records rejects it.
C26_MismatchStep ==
    (cpc = "handshake" /\ cpc' /= "handshake" /\ known_hosts.readable
        /\ known_hosts.rec \notin {NoKey, server_key}) => RejectsHostKey

\* A connect that failed on the host key attempted no authentication and made
\* no Session.
C26_RejectedNoAuth ==
    HostKeyRejected
        => /\ attempts = << >> /\ loads = << >> /\ agent_contacts = 0
           /\ rsa_queries = 0 /\ accepts = 0

\* C26 (amended): when the known-hosts file can be read and records another key
\* for the host/port, the connect fails with the host-key-changed error, no
\* authentication is attempted, no Session is made and the key is not
\* accepted; a file that cannot be read is logged and the key accepted.
C26_ReadableMismatchFatal ==
    /\ []C26_RejectedNoAuth
    /\ [][C26_MismatchStep]_vars

\* A key was learned on first sighting and a later connect presenting another
\* key failed on it.
C26_Witness ==
    /\ HostKeyRejected
    /\ n_connects >= 2
    /\ Len(accepted_keys) >= 1
    /\ known_hosts.rec = accepted_keys[1]
    /\ server_key /= known_hosts.rec

\* ------------------------------------------------------------------ C27
\* C27: once a key has been accepted on first sighting, every later connect
\* (whose check can read the file) accepts the same key and rejects another.
C27_MatchOrReject ==
    [][(cpc = "handshake" /\ cpc' /= "handshake" /\ known_hosts.readable
            /\ sighted /= NoKey)
        => IF server_key = sighted
           THEN cpc' = "authenticate" /\ accepted_keys' = Append(accepted_keys, server_key)
           ELSE RejectsHostKey]_vars

\* ------------------------------------------------------------------ C28
\* No character of s is one of cs.
NoneOf(s, cs) == \A i \in 1..Len(s) : s[i] \notin cs

\* A path of the grammar: it starts with /.
IsPath(p) == Len(p) >= 1 /\ p[1] = "/"

\* A port of the grammar: an integer (of 16 bits).
IsPort(p) == Len(p) >= 1 /\ NoneOf(p, ConnAlphabet \ Digits) /\ DecimalValue(p) <= U16_MAX

\* What may follow user@host in the documented grammar, with the port and
\* the path it stands for: nothing, :/path, :port, :port:/path.
Suffixes(x) ==
    (IF Len(x) = 0
     THEN {[port |-> DEFAULT_PORT, remote_path |-> DEFAULT_REMOTE_PATH]} ELSE {})
    \cup (IF Len(x) >= 1 /\ x[1] = ":" /\ IsPath(Tail(x))
          THEN {[port |-> DEFAULT_PORT, remote_path |-> Tail(x)]} ELSE {})
    \cup (IF Len(x) >= 1 /\ x[1] = ":" /\ IsPort(Tail(x))
          THEN {[port |-> DecimalValue(Tail(x)), remote_path |-> DEFAULT_REMOTE_PATH]}
          ELSE {})
    \cup {[port |-> DecimalValue(SubSeq(x, 2, c - 1)), remote_path |-> SubSeq(x, c + 1, Len(x))] :
            c \in {d \in 2..Len(x) : /\ x[1] = ":" /\ x[d] = ":"
                                     /\ IsPort(SubSeq(x, 2, d - 1))
                                     /\ IsPath(SubSeq(x, d + 1, Len(x)))}}

\* The readings of s in the documented grammar: a non-empty user without @
\* and :, an @, a non-empty host without :, and one of the suffixes.
Documented(s) ==
    UNION {UNION {{[user |-> SubSeq(s, 1, a - 1), host |-> SubSeq(s, a + 1, h),
                    port |-> x.port, remote_path |-> x.remote_path] :
                        x \in Suffixes(SubSeq(s, h + 1, Len(s)))} :
                  h \in {g \in (a + 1)..Len(s) : NoneOf(SubSeq(s, a + 1, g), {":"})}} :
           a \in {b \in 2..Len(s) : s[b] = "@" /\ NoneOf(SubSeq(s, 1, b - 1), {"@", ":"})}}

\* The reading with the port override applied.
Overridden(d, port_override) ==
    [ok |-> TRUE, user |-> d.user, host |-> d.host,
     port |-> IF port_override /= NoPort THEN port_override ELSE d.port,
     remote_path |-> d.remote_path]

\* C28: parse_connection_string accepts exactly the strings of the documented
\* grammar (user@host, user@host:/path, user@host:port, user@host:port:/path)
\* and returns their fields, port 22 and path ~ by default, the port override
\* in place of the parsed port.
C28_ExactGrammar ==
    u_op = "parse_connection_string"
        => /\ u_out.ok <=> Documented(u_in) /= {}
           /\ u_out.ok => u_out \in {Overridden(d, u_port) : d \in Documented(u_in)}

\* ------------------------------------------------------------------ C29
\* The number of single quotes in s.
RECURSIVE Quotes(_)
Quotes(s) == IF Len(s) = 0 THEN 0 ELSE (IF Head(s) = "'" THEN 1 ELSE 0) + Quotes(Tail(s))

\* C29: shell_escape(s) is s between single quotes with every embedded '
\* replaced by the four characters '\'', and a POSIX shell reads it back as
\* exactly one word whose value is s, no character of it given a special
\* meaning (so shell_escape is injective: s is recovered from its result).
C29_OneLiteralWord ==
    u_op = "shell_escape"
        => /\ Len(u_out.text) = Len(u_in) + 2 + 3 * Quotes(u_in)
           /\ Head(u_out.text) = "'" /\ u_out.text[Len(u_out.text)] = "'"
           /\ ShellRead(u_out.text)
                = [words |-> << u_in >>, special |-> FALSE, unterminated |-> FALSE]

\* A string with a single quote, a blank, a $ and a backslash was escaped.
C29_Witness ==
    /\ u_op = "shell_escape"
    /\ {"'", " ", "$", Backslash} \subseteq {u_in[i] : i \in 1..Len(u_in)}

\* ------------------------------------------------------------------ C30
\* The output begins with a ~ inside single quotes.
TildeQuoted(out) == starts_with(out, << "'", "~" >>)

\* C30: shell_escape_remote_path maps ~ to $HOME, ~/X to $HOME/ and
\* shell_escape(X), any other path p to shell_escape(p), and never puts the ~
\* an input begins with inside single quotes; every exec command begins with
\* cd <shell_escape_remote_path(remote_path)> && .
C30_RemotePathEscaped ==
    /\ u_op = "shell_escape_remote_path"
        => /\ u_out.text =
                IF u_in = << "~" >> THEN Home
                ELSE IF starts_with(u_in, << "~", "/" >>)
                THEN Home \o << "/" >> \o shell_escape(SubSeq(u_in, 3, Len(u_in)))
                ELSE shell_escape(u_in)
           /\ starts_with(u_in, << "~" >>) => ~TildeQuoted(u_out.text)
    /\ u_op = "run_channel"
        => u_out.text = << "c", "d", " " >> \o shell_escape_remote_path(u_in)
                            \o << " ", "&", "&", " " >> \o Command

\* Positions inside pool.get: the map was read and the handle is checked, or
\* the closed handle is about to be evicted.
GetChecking == {"get1_closed", "get2_closed"}
GetEvicting == {"get1_evict", "get2_evict"}

\* C31, the handle: the handle pool.get looks at is the one the pool mapped
\* the name to when get read the map, and get returns it (the call goes on to
\* its handler with it) only from a check that found it open.
C31_ReturnsPooledOpen ==
    \A t \in Tasks :
        /\ (observed'[t] /= observed[t] /\ observed'[t] /= NoConn)
                => (observed'[t] = pool[server[t]] /\ pool' = pool)
        /\ (pc[t] \in GetChecking /\ pc'[t] /= pc[t])
                => /\ pool' = pool
                   /\ IF IsClosed(observed[t])
                      THEN pc'[t] \in GetEvicting /\ conn'[t] = NoConn
                      ELSE pc'[t] = "handler" /\ conn'[t] = observed[t]

\* C31, the eviction: get returns none; the entry of the name goes when the
\* pool still maps the name to the observed handle, and the pool stays as it
\* is when it maps the name to another handle or to none; the entries of the
\* other names stay.
C31_EvictsOnlySame ==
    \A t \in Tasks :
        (pc[t] \in GetEvicting /\ pc'[t] /= pc[t])
            => /\ conn'[t] = NoConn
               /\ pc'[t] \in {"cfg_lookup", "connect"}
               /\ pool'[server[t]] = IF pool[server[t]] = observed[t] THEN NoConn
                                      ELSE pool[server[t]]
               /\ \A n \in Names \ {server[t]} : pool'[n] = pool[n]

\* C31: pool.get(name) returns a handle only if it was pooled under name and
\* its is_closed() returned false during the call; a handle observed closed
\* makes get return none and is removed only if the pool still maps name to
\* it; get changes no other name's entry.
C31_GetEvictsIdentical == [][C31_ReturnsPooledOpen /\ C31_EvictsOnlySame]_vars

\* C31's case: get observed its handle closed while the pool already maps
\* the name to another handle.
C31_Witness ==
    \E t \in Tasks :
        /\ pc[t] \in GetEvicting
        /\ pool[server[t]] /= NoConn
        /\ pool[server[t]] /= observed[t]

\* C32: once a live session is pooled under an alias, a call resolving the
\* alias does not wait for another call: the liveness check of the fast
\* path's pool.get on the live pooled session can always complete, also
\* while another call's channel open is in progress on the session.
C32_PooledNeverBlocks ==
    \A t \in Tasks :
        (pc[t] = "get1_closed" /\ observed[t] = pool[server[t]] /\ ~Dead(observed[t]))
            => ENABLED Get1Closed(t)

\* The handle whose is_closed() the task is calling, NoConn when it calls none.
Checked(t) ==
    IF pc[t] \in GetChecking THEN observed[t]
    ELSE IF pc[t] = "cleanup_check" THEN conn[t]
    ELSE NoConn

\* C33, steps: no step resets force_closed; an is_closed() on a marked
\* session returns true (pool.get goes on to evict, the post-call check to
\* remove); pool.get hands out no marked session.
C33_MarkedStep ==
    /\ \A h \in Handles : sessions[h].force_closed => sessions'[h].force_closed
    /\ \A t \in Tasks :
        /\ ( /\ Checked(t) /= NoConn /\ pc'[t] /= pc[t]
              /\ sessions[Checked(t)].force_closed )
                => pc'[t] \in GetEvicting \cup {"cleanup_remove"}
        /\ (pc[t] \in GetChecking /\ pc'[t] = "handler")
                => ~sessions[conn'[t]].force_closed

\* C33, states: is_closed() on a marked session does not wait for the
\* session mutex.
C33_MarkedNeedsNoMutex ==
    \A t \in Tasks :
        (Checked(t) /= NoConn /\ sessions[Checked(t)].force_closed)
            => \/ ENABLED Get1Closed(t)
               \/ ENABLED Get2Closed(t)
               \/ ENABLED CleanupCheck(t)

Locked == {a \in Names : connect_locks[a] /= NoConn}

\* C34, steps: an entry of connect_locks is added, never replaced, and only
\* for the alias of a call whose registry lookup found the alias (the call
\* holds the params copied from the entry).
C34_LockStep ==
    \A a \in Names :
        connect_locks'[a] /= connect_locks[a]
            => /\ connect_locks[a] = NoConn
               /\ \E t \in Tasks : /\ pc[t] = "lock_slow"
                                    /\ server[t] = a
                                    /\ params[t].server_name = a
                                    /\ a \in configured

\* C34, states: every alias with a connect mutex has been configured, there
\* is one mutex per such alias, and so no more mutexes than aliases that
\* have been configured.
C34_LocksOfConfigured ==
    /\ Locked \subseteq configured
    /\ Len(mutexes) = Cardinality(Locked)
    /\ Len(mutexes) <= Cardinality(configured)

\* C34: a connect mutex is created only for an alias the registry held when
\* the dispatcher looked it up; calls naming unconfigured aliases add no
\* entry to connect_locks, and the mutexes never outnumber the aliases that
\* have been configured.
C34_LocksBounded == []C34_LocksOfConfigured /\ [][C34_LockStep]_vars

\* C34's case: a call naming an alias that was never configured is about to
\* return, and the alias has no connect mutex while a configured one has.
C34_Witness ==
    \E t \in Tasks :
        /\ pc[t] = "done"
        /\ server[t] \in Names \ configured
        /\ connect_locks[server[t]] = NoConn
        /\ Locked /= {}

\* The bytes of the frames that go to stdout, or to stderr, in order.
IsStdout(f) == f.type = "Data"
IsStderr(f) == f.type = "ExtendedData" /\ f.ext = 1
IsExitStatus(f) == f.type = "ExitStatus"
GoesTo(stream, f) == IF stream = "stdout" THEN IsStdout(f) ELSE IsStderr(f)

RECURSIVE BytesOf(_, _)
BytesOf(frames, stream) ==
    IF Len(frames) = 0 THEN << >>
    ELSE (IF GoesTo(stream, frames[1]) THEN frames[1].data ELSE << >>)
            \o BytesOf(Tail(frames), stream)

\* The positions of the ExitStatus frames of a stream.
StatusAt(frames) == {i \in 1..Len(frames) : IsExitStatus(frames[i])}

\* The greatest element of a non-empty set of numbers.
Last(S) == CHOOSE i \in S : \A j \in S : j <= i

\* C35: the exec result's stdout is the in-order concatenation of the Data
\* frames, stderr that of the ExtendedData frames with extension 1, every
\* other frame is ignored; the exit code is that of the last ExitStatus
\* frame (as an i32), or -1 when none arrived; frames after an Eof frame are
\* collected like the ones before it.
C35_OutputCollected ==
    (u_op = "read_loop" /\ u_out.ok)
        => /\ u_out.stdout = BytesOf(u_in, "stdout")
           /\ u_out.stderr = BytesOf(u_in, "stderr")
           /\ u_out.exit_code = IF StatusAt(u_in) = {} THEN -1
                                 ELSE cast_signed(u_in[Last(StatusAt(u_in))].exit_status)

\* C35's case: the result of a stream in which an exit status and data
\* arrived after the Eof frame, and an earlier exit status before it.
C35_Witness ==
    /\ u_op = "read_loop"
    /\ u_out.ok
    /\ \E i, j, k \in 1..Len(u_in) :
            /\ i < j /\ j < k
            /\ IsExitStatus(u_in[i])
            /\ u_in[j].type = "Eof"
            /\ IsExitStatus(u_in[k])
            /\ u_in[i].exit_status /= u_in[k].exit_status
            /\ u_out.exit_code = u_in[k].exit_status.lo

\* Positions inside maybe_reload_config, and inside the auto-connect of
\* resolve_connection (from the registry lookup to the insert).
Reloading == {"rl_stat", "rl_check", "rl_load", "rl_diff", "rl_swap", "rl_mtime",
              "rl_evict", "rl_join"}
AutoConnecting == {"cfg_lookup", "lock_fast", "lock_slow", "lock_wait", "get2_read",
                   "get2_closed", "get2_evict", "connect", "connecting", "insert"}

\* C36: whenever no auto-connect and no reload is in flight, every pooled
\* session of an alias was connected with the params derived from the
\* alias's current in-memory registry entry, and the alias is configured.
C36_PooledFromCurrentEntry ==
    (\A t \in Tasks : pc[t] \notin Reloading \cup AutoConnecting)
        => \A a \in Names :
                pool[a] /= NoConn
                    => /\ a \in DOMAIN config
                       /\ sessions[pool[a]].params = params_from_config(a, config[a])

\* C37: hot-reload converges.  A call that ran maybe_reload_config from its
\* start to its end with no other call in flight, on a parseable file that
\* was not written since the call read its mtime, leaves the in-memory
\* registry equal to the file's content and the bookmark equal to the file's
\* mtime, whatever the reloads before it did.
C37_ReloadConverges ==
    \A t \in Tasks :
        ( /\ pc[t] \in ReloadOver
          /\ snap.task = t
          /\ file.ok
          /\ current_mtime[t] = file.mtime )
        => (config = file.reg /\ config_mtime = file.mtime)

\* The session h was connected with the params of the alias's entry in the
\* registry that reload t swapped in.
FromNewEntry(t, h, a) ==
    /\ a \in DOMAIN new_config[t]
    /\ sessions[h].params = params_from_config(a, new_config[t][a])

\* C38: the eviction step of a hot-reload removes from the pool no session
\* that was connected from the entry the reload swapped in.
C38_EvictsOnlyOld ==
    [][\A t \in Tasks : \A a \in Names :
        ( /\ pc[t] = "rl_evict"
          /\ a \in servers_to_evict[t] \ servers_to_evict'[t]
          /\ pool[a] /= NoConn
          /\ pool'[a] = NoConn )
        => ~FromNewEntry(t, pool[a], a)]_vars

\* C39: a session is marked force-closed only when one channel-open request
\* on it has itself been outstanding for the full timeout: when force_closed
\* is set, some task's channel_open_session has been outstanding for
\* CHANNEL_OPEN_TIMEOUT_SECS; the time a task waited for the session mutex
\* does not count.
C39_OwnOpenTimedOut ==
    [][(o_force_closed' /\ ~o_force_closed)
        => \E t \in Tasks : /\ o_pc[t] = "opening"
                             /\ o_open[t] * TickSecs >= CHANNEL_OPEN_TIMEOUT_SECS]_vars

\* The tasks that hold connect mutex i.
Holding(t) == {i \in 1..Len(mutexes) : mutexes[i] = t}

\* C40, the connect lock: a task holds a connect mutex only between the
\* acquisition and the end of resolve_connection, and only the one it took;
\* on every way out of resolve_connection (pooled session found, connected,
\* connect failed) the mutex is free again.
C40_ConnectLockReleased ==
    \A t \in Tasks :
        IF pc[t] \in UnderConnectLock
        THEN Holding(t) = {lock[t]}
        ELSE Holding(t) = {}

\* C40, no deadlock: while a call is in flight some task can take a step
\* (the tasks that wait for a connect mutex or a session mutex wait for a
\* task that can go on).
C40_SomeTaskCanStep ==
    (\E t \in Tasks : pc[t] /= "idle") => \E t \in Tasks : ENABLED TaskStep(t)

\* C40: the dispatcher is deadlock-free and every call terminates: every
\* with_connection and list_servers call that was started returns, no state
\* has every in-flight task waiting, and the connect lock is released on
\* every exit path.
C40_EveryCallReturns ==
    /\ [](C40_ConnectLockReleased /\ C40_SomeTaskCanStep)
    /\ \A t \in Tasks : (pc[t] /= "idle") ~> (pc[t] = "idle")

\* C40's case: a task that holds the connect lock waits, in pool.get's
\* liveness check, for the session mutex another task holds for its channel
\* open, while that task's call goes on.
C40_Witness ==
    \E t, u \in Tasks :
        /\ pc[t] = "get2_closed"
        /\ Holding(t) /= {}
        /\ pc[u] = "ch_opening"
        /\ sessions[observed[t]].mutex = u
        /\ ~ENABLED Get2Closed(t)

====
